---- MODULE Spec2Model ----
(***************************************************************************)
(* A model of the cyber-attack simulator: the graph interface of the       *)
(* legacy environment (NetworkInterface), the defender's discrete action   *)
(* space, the firewall evaluation of the network model, the network model  *)
(* with the defender's actions, the attacker's kill-chain agent, the       *)
(* detectors, the environment's step, and the defender's and attacker's    *)
(* interfaces of the legacy environment.                                   *)
(*                                                                         *)
(* Network objects are identified with their names: a node and its name    *)
(* are the same value here.  Each subsystem has its own specification;     *)
(* the variables of the other subsystems stay at their initial values.     *)
(***************************************************************************)
EXTENDS Integers, Sequences, FiniteSets, TLC

VARIABLES
    \* ---- NetworkInterface (cyberattacksim) ----
    niBaseNodes,    \* nodes of base_graph
    niBaseEdges,    \* edges of base_graph, each a set {a, b}
    niCurNodes,     \* nodes of current_graph
    niCurEdges,     \* edges of current_graph
    niIsolated,     \* Node.isolated of every node
    niPointer,      \* deceptive_node_pointer
    niCount,        \* current_deceptive_nodes
    niReachedMax,   \* reached_max_deceptive_nodes
    niEdgeMap,      \* edge_map: index -> node pair
    niNewOnRelocate,\* game mode: deceptive_nodes.new_node_on_relocate
    niOp,           \* the last operation, its argument and n's flag before it
    niRT,           \* the isolate/reconnect round trip under observation
    niOrder,        \* the placed deceptive nodes, least recently placed first
    \* ---- DiscreteActionSpace (cyberwheel) ----
    asNumHosts,     \* num_hosts
    asNumSubnets,   \* num_subnets
    asSize,         \* action_space_size
    asCheckers,     \* action_checkers: type, lower_bound, upper_bound
    asCall,         \* the last call, its input and its outcome
    \* ---- firewall rules of the cyberwheel Network ----
    fwRules,        \* firewall_rules of the router, the subnet and the host
    fwCall,         \* the last call, its input and its outcome
    \* ---- cyberwheel Network and the defender's actions ----
    netNodes,       \* nodes of Network.graph
    netData,        \* the nodes that carry a 'data' object
    netEdges,       \* edges of Network.graph (a DiGraph), pairs <<from, to>>
    netDecoys,      \* Network.decoys
    netDisconnected,\* Network.disconnected_nodes
    netHost,        \* the fields of every Host object
    netPool,        \* Subnet.available_ips: how often each address is in it
    netConnected,   \* Subnet.connected_hosts
    netNext,        \* how many ids generate_id has handed out
    netBudget,      \* how many decoys the defender creates in the run
    netDecoyList,   \* shared data decoy_list
    netQuarantine,  \* shared data quarantine_list
    netIsolateData, \* shared data isolate_data
    netOp,          \* the last operation and its outcome
    netObs,         \* obs_vec of the alert converter
    \* ---- ARTAgent (the attacker) ----
    redStrategy,    \* the RedStrategy in use
    redHostType,    \* host_type.name of every host
    redValid,       \* services_map: the phases with a valid technique, per host
    redHosts,       \* history.hosts: KnownHostInfo of every host (known or not)
    redSubnets,     \* history.subnets: what is known of every subnet
    redCurrent,     \* current_host
    redUnimpacted,  \* unimpacted_servers
    redUnknowns,    \* unknowns
    redTurn,        \* the last turn: target, action, outcome, and what
                    \* run_action saw of the target before it
    redLog,         \* per host, the scans that covered it and the phases
                    \* that succeeded on it, in order
    redQuarantine,  \* the hosts the defender isolated from their subnet
    redEntry,       \* the entry host of the episode
    redEntryTurns,  \* the first turns taken against the entry host while
                    \* all of them succeeded
    redDecoySubnet, \* per decoy name, the subnet it is deployed in, or "-"
    redTracked,     \* tracked_hosts
    \* ---- DetectorHandler ----
    detConfig,      \* the adjacency list of the configuration
    detInitInfo,    \* init_info: the detector class of every inner node
    detDG,          \* the detector graph DG
    detOutput,      \* detector_output of every node
    detCall,        \* the last call and its result
    \* ---- DynamicCyberwheel (the environment) ----
    envPc,          \* where step stands: idle, after the defender's action
                    \* ("blue"), after the attacker's turn ("red")
    envConfig,      \* the detector's adjacency list
    envDetectors,   \* the detector class of every inner node
    envDetOutput,   \* detector_output of every node
    envDecoys,      \* the decoys connected to the subnet, oldest first
    envNext,        \* how many ids generate_id has handed out to decoys
    envTracked,     \* the attacker's tracked_hosts
    envServices,    \* the keys of the attacker's services_map
    envKnown,       \* the keys of the attacker's history.hosts
    envScanned,     \* whether the attacker has scanned the subnet
    envObs,         \* obs_vec of the alert converter
    envEver,        \* the sources of the alerts observed so far in the
                    \* episode
    envRecurring,   \* the ids of the reward calculator's recurring map
    envCurrentStep, \* current_step
    envStep,        \* the step in progress or the last one: results, events
    envMaxSteps,    \* max_steps
    envReturned,    \* the calls to step that returned since the last reset
    \* ---- BlueInterface (cyberattacksim) ----
    biConfig,       \* action_dict, global_action_dict, deceptive_actions
    biNodes,        \* the nodes of current_graph
    biDeceptive,    \* current_deceptive_nodes
    biCall,         \* the last perform_action: its input and what it ran
    \* RedInterface
    riConfig,       \* zero_day.use, start_amount, days_required and
                    \* natural_spreading.capable of the game mode
    riAmount,       \* zero_day_amount
    riDay,          \* zero_day_current_day
    riCompromised,  \* the nodes with true_compromised_status = 1
    riSince,        \* the turns completed since the last grant or reset
    riCall          \* the last perform_action: what its parts did

niVars == <<niBaseNodes, niBaseEdges, niCurNodes, niCurEdges, niIsolated,
            niPointer, niCount, niReachedMax, niEdgeMap, niNewOnRelocate,
            niOp, niRT, niOrder>>

asVars == <<asNumHosts, asNumSubnets, asSize, asCheckers, asCall>>

fwVars == <<fwRules, fwCall>>

netVars == <<netNodes, netData, netEdges, netDecoys, netDisconnected, netHost,
             netPool, netConnected, netNext, netDecoyList, netQuarantine,
             netIsolateData, netOp,
            netObs, netBudget>>

redVars == <<redStrategy, redHostType, redValid, redHosts, redSubnets,
             redCurrent, redUnimpacted, redUnknowns, redTurn, redLog,
             redQuarantine, redEntry, redEntryTurns, redDecoySubnet,
             redTracked>>

detVars == <<detConfig, detInitInfo, detDG, detOutput, detCall>>

envVars == <<envPc, envConfig, envDetectors, envDetOutput, envDecoys, envNext,
             envTracked, envServices, envKnown, envScanned, envObs, envEver,
             envRecurring, envCurrentStep, envStep, envMaxSteps, envReturned>>

biVars == <<biConfig, biNodes, biDeceptive, biCall>>

riVars == <<riConfig, riAmount, riDay, riCompromised, riSince, riCall>>

vars == <<niVars, asVars, fwVars, netVars, redVars, detVars, envVars, biVars,
          riVars>>

(***************************************************************************)
(* The state of a subsystem that is constructed and not used               *)
(***************************************************************************)

NoOp == [op |-> "init", node |-> "-", wasIso |-> FALSE, ok |-> TRUE]
NoRT == [phase |-> "none", node |-> "-", edges |-> {}, wasIso |-> FALSE]
NoCall == [op |-> "init", inp |-> [kind |-> "none", n |-> 0],
           res |-> [kind |-> "-", entry |-> 0, index |-> 0]]
NoFwCall == [op |-> "init", src |-> "-", dest |-> "-",
             port |-> [kind |-> "None", n |-> 0, s |-> ""], proto |-> "-",
             res |-> "-"]
NoNetOp == [op |-> "init", arg |-> "-", res |-> "-"]
NoTurn == [op |-> "init", target |-> "-", action |-> "-", success |-> FALSE,
           raised |-> FALSE,
           ping_sweeped |-> FALSE, ports_scanned |-> FALSE, on_target |-> FALSE,
           next_step |-> 0]
NoDetCall == [op |-> "init", alerts |-> << >>, fresh |-> TRUE, res |-> << >>,
              calls |-> 0]
NoEntryTurn == [action |-> "-", success |-> FALSE, last_step |-> -1,
                impacted |-> FALSE]

IdleNI ==
    /\ niEdgeMap = << >>
    /\ niBaseEdges = {}
    /\ niCurEdges = {}
    /\ niBaseNodes = {}
    /\ niCurNodes = {}
    /\ niIsolated = << >>
    /\ niPointer = 0
    /\ niCount = 0
    /\ niReachedMax = FALSE
    /\ niNewOnRelocate = FALSE
    /\ niOp = NoOp
    /\ niRT = NoRT
    /\ niOrder = << >>

IdleAS ==
    /\ asNumHosts = 0
    /\ asNumSubnets = 0
    /\ asSize = 0
    /\ asCheckers = << >>
    /\ asCall = NoCall

IdleFW ==
    /\ fwRules = << >>
    /\ fwCall = NoFwCall

IdleNet ==
    /\ netNodes = {}
    /\ netData = {}
    /\ netEdges = {}
    /\ netDecoys = << >>
    /\ netDisconnected = << >>
    /\ netHost = << >>
    /\ netPool = << >>
    /\ netConnected = << >>
    /\ netNext = 0
    /\ netDecoyList = << >>
    /\ netQuarantine = << >>
    /\ netIsolateData = << >>
    /\ netOp = NoNetOp
    /\ netObs = <<0, 0>>
    /\ netBudget = 0

IdleRed ==
    /\ redStrategy = "-"
    /\ redHostType = << >>
    /\ redValid = << >>
    /\ redHosts = << >>
    /\ redSubnets = << >>
    /\ redCurrent = "-"
    /\ redUnimpacted = {}
    /\ redUnknowns = {}
    /\ redTurn = NoTurn
    /\ redLog = << >>
    /\ redQuarantine = {}
    /\ redEntry = "-"
    /\ redEntryTurns = << >>
    /\ redDecoySubnet = << >>
    /\ redTracked = {}

IdleDet ==
    /\ detConfig = << >>
    /\ detInitInfo = << >>
    /\ detDG = << >>
    /\ detOutput = << >>
    /\ detCall = NoDetCall

IdleEnv ==
    /\ envPc = "-"
    /\ envConfig = << >>
    /\ envDetectors = << >>
    /\ envDetOutput = << >>
    /\ envDecoys = << >>
    /\ envNext = 0
    /\ envTracked = {}
    /\ envServices = {}
    /\ envKnown = {}
    /\ envScanned = FALSE
    /\ envObs = << >>
    /\ envEver = {}
    /\ envRecurring = {}
    /\ envCurrentStep = 0
    /\ envStep = << >>
    /\ envMaxSteps = 0
    /\ envReturned = 0

IdleBI ==
    /\ biConfig = << >>
    /\ biNodes = {}
    /\ biDeceptive = 0
    /\ biCall = << >>

IdleRI ==
    /\ riConfig = << >>
    /\ riAmount = 0
    /\ riDay = 0
    /\ riCompromised = {}
    /\ riSince = 0
    /\ riCall = << >>

\* every subsystem but sub is constructed and not used
IdleOthers(sub) ==
    /\ IF sub = "NI" THEN TRUE ELSE IdleNI
    /\ IF sub = "AS" THEN TRUE ELSE IdleAS
    /\ IF sub = "FW" THEN TRUE ELSE IdleFW
    /\ IF sub = "Net" THEN TRUE ELSE IdleNet
    /\ IF sub = "Red" THEN TRUE ELSE IdleRed
    /\ IF sub = "Det" THEN TRUE ELSE IdleDet
    /\ IF sub = "Env" THEN TRUE ELSE IdleEnv
    /\ IF sub = "BI" THEN TRUE ELSE IdleBI
    /\ IF sub = "RI" THEN TRUE ELSE IdleRI

\* a step of sub leaves every other subsystem alone
Others(sub) ==
    /\ IF sub = "NI" THEN TRUE ELSE UNCHANGED niVars
    /\ IF sub = "AS" THEN TRUE ELSE UNCHANGED asVars
    /\ IF sub = "FW" THEN TRUE ELSE UNCHANGED fwVars
    /\ IF sub = "Net" THEN TRUE ELSE UNCHANGED netVars
    /\ IF sub = "Red" THEN TRUE ELSE UNCHANGED redVars
    /\ IF sub = "Det" THEN TRUE ELSE UNCHANGED detVars
    /\ IF sub = "Env" THEN TRUE ELSE UNCHANGED envVars
    /\ IF sub = "BI" THEN TRUE ELSE UNCHANGED biVars
    /\ IF sub = "RI" THEN TRUE ELSE UNCHANGED riVars

(***************************************************************************)
(* NetworkInterface                                                        *)
(***************************************************************************)

\* the number of deceptive nodes of the game mode (max_number)
MaxDeceptive == 2

NINodes == {"n1", "n2", "n3"}

\* the names initialise_deceptive_nodes gives: 'd' + str(i)
DNames == <<"d0", "d1", "d2", "d3">>

available_deceptive_nodes == SubSeq(DNames, 1, MaxDeceptive)

NIAllNodes == NINodes \cup {DNames[i] : i \in 1..Len(DNames)}

\* the networks an episode may start from, as lists of node pairs
Topologies ==
    { << <<"n1", "n2">>, <<"n2", "n3">> >>,
      << <<"n1", "n2">>, <<"n2", "n3">>, <<"n1", "n3">> >> }


\* the graphs and flags the operations below work on
NIState == [bn |-> niBaseNodes, be |-> niBaseEdges,
            cn |-> niCurNodes, ce |-> niCurEdges, iso |-> niIsolated]

Neighbors(nodes, edges, n) == {m \in nodes : {n, m} \in edges}

get_current_connected_nodes(s, n) == Neighbors(s.cn, s.ce, n)

get_base_connected_nodes(s, n) == Neighbors(s.bn, s.be, n)

isolate_node(s, n) ==
    [s EXCEPT !.iso = [s.iso EXCEPT ![n] = TRUE],
              !.ce = s.ce \ {{n, cn} : cn \in get_current_connected_nodes(s, n)}]

\* a reconnect that does not look at the neighbours' isolation
reconnect_node_all(s, n) ==
    IF s.iso[n]
    THEN [s EXCEPT !.iso = [s.iso EXCEPT ![n] = FALSE],
                   !.ce = s.ce \cup {{n, bn} : bn \in get_base_connected_nodes(s, n)}]
    ELSE s

reconnect_node(s, n) ==
    IF s.iso[n]
    THEN LET iso2 == [s.iso EXCEPT ![n] = FALSE]
             base_connections == get_base_connected_nodes(s, n)
         IN [s EXCEPT !.iso = iso2,
                      !.ce = s.ce \cup {{n, bn} : bn \in
                                          {b \in base_connections : ~iso2[b]}}]
    ELSE s

\* graph is "base" or "current"; the node's neighbours are joined pairwise
remove_node_yt(s, node, graph) ==
    LET s1 == reconnect_node(s, node)
        gn == IF graph = "base" THEN s1.bn ELSE s1.cn
        ge == IF graph = "base" THEN s1.be ELSE s1.ce
        connections == Neighbors(gn, ge, node) \ {node}
        new_links == IF Cardinality(connections) >= 2
                     THEN {{a, b} : a, b \in connections} \ {{c} : c \in connections}
                     ELSE {}
        ge2 == {e \in ge \cup new_links : node \notin e}
        gn2 == gn \ {node}
    IN IF graph = "base"
       THEN [s1 EXCEPT !.bn = gn2, !.be = ge2]
       ELSE [s1 EXCEPT !.cn = gn2, !.ce = ge2]

insert_node_between(s, new_node, node1, node2, graph) ==
    LET gn == IF graph = "base" THEN s.bn ELSE s.cn
        ge == IF graph = "base" THEN s.be ELSE s.ce
        ge2 == (ge \ {{node1, node2}}) \cup {{node1, new_node}, {new_node, node2}}
        gn2 == gn \cup {new_node, node1, node2}
    IN IF graph = "base"
       THEN [s EXCEPT !.bn = gn2, !.be = ge2]
       ELSE [s EXCEPT !.cn = gn2, !.ce = ge2]

\* an add_deceptive_node that connects the new node to both nodes in
\* current_graph whatever their isolation
add_deceptive_node_graphs_open(s, deceptive_node, node1, node2) ==
    LET s1 == IF deceptive_node \in s.bn
              THEN remove_node_yt(s, deceptive_node, "base") ELSE s
        s2 == insert_node_between(s1, deceptive_node, node1, node2, "base")
        s3 == IF deceptive_node \in s2.cn
              THEN remove_node_yt(s2, deceptive_node, "current") ELSE s2
    IN insert_node_between(s3, deceptive_node, node1, node2, "current")

\* the graphs after add_deceptive_node(node1, node2) found the base edge
add_deceptive_node_graphs(s, deceptive_node, node1, node2) ==
    LET s1 == IF deceptive_node \in s.bn
              THEN remove_node_yt(s, deceptive_node, "base") ELSE s
        s2 == insert_node_between(s1, deceptive_node, node1, node2, "base")
        s3 == IF deceptive_node \in s2.cn
              THEN remove_node_yt(s2, deceptive_node, "current") ELSE s2
        s4 == IF ~s3.iso[node1] /\ ~s3.iso[node2]
              THEN insert_node_between(s3, deceptive_node, node1, node2, "current")
              ELSE IF ~s3.iso[node1]
              THEN [s3 EXCEPT !.cn = s3.cn \cup {deceptive_node},
                              !.ce = s3.ce \cup {{node1, deceptive_node}}]
              ELSE IF ~s3.iso[node2]
              THEN [s3 EXCEPT !.cn = s3.cn \cup {deceptive_node},
                              !.ce = s3.ce \cup {{node2, deceptive_node}}]
              ELSE [s3 EXCEPT !.cn = s3.cn \cup {deceptive_node}]
    IN IF niNewOnRelocate
       THEN [s4 EXCEPT !.iso = [s4.iso EXCEPT ![deceptive_node] = FALSE]]
       ELSE s4

\* a pointer that always returns to the first deceptive node
next_pointer_first(pointer) == 0

\* deceptive_node_pointer after the increment: back to 0 at max_number
next_pointer(pointer) == IF pointer = MaxDeceptive THEN 0 ELSE pointer

NISet(s) ==
    /\ niBaseNodes' = s.bn
    /\ niBaseEdges' = s.be
    /\ niCurNodes' = s.cn
    /\ niCurEdges' = s.ce
    /\ niIsolated' = s.iso

InitNI ==
    /\ \E t \in Topologies :
          /\ niEdgeMap = t
          /\ niBaseEdges = {{t[i][1], t[i][2]} : i \in 1..Len(t)}
          /\ niCurEdges = {{t[i][1], t[i][2]} : i \in 1..Len(t)}
    /\ niBaseNodes = NINodes
    /\ niCurNodes = NINodes
    /\ niIsolated = [n \in NIAllNodes |-> FALSE]
    /\ niPointer = 0
    /\ niCount = 0
    /\ niReachedMax = FALSE
    /\ niNewOnRelocate \in BOOLEAN
    /\ niOp = NoOp
    /\ niRT = NoRT
    /\ niOrder = << >>
    /\ IdleOthers("NI")

NI_isolate_node ==
    \E n \in niCurNodes :
        /\ NISet(isolate_node(NIState, n))
        /\ niOp' = [op |-> "isolate_node", node |-> n,
                    wasIso |-> niIsolated[n], ok |-> TRUE]
        /\ niRT' = [phase |-> "isolated", node |-> n, edges |-> niCurEdges,
                    wasIso |-> niIsolated[n]]
        /\ UNCHANGED <<niPointer, niCount, niReachedMax, niEdgeMap, niNewOnRelocate,
                       niOrder>>
        /\ Others("NI")

NI_reconnect_node ==
    \E n \in niCurNodes :
        /\ NISet(reconnect_node(NIState, n))
        /\ niOp' = [op |-> "reconnect_node", node |-> n,
                    wasIso |-> niIsolated[n], ok |-> TRUE]
        /\ niRT' = IF niRT.phase = "isolated" /\ niRT.node = n
                   THEN [niRT EXCEPT !.phase = "done"]
                   ELSE NoRT
        /\ UNCHANGED <<niPointer, niCount, niReachedMax, niEdgeMap, niNewOnRelocate,
                       niOrder>>
        /\ Others("NI")

NI_add_deceptive_node ==
    \E k \in 1..Len(niEdgeMap) :
        LET node1 == niEdgeMap[k][1]
            node2 == niEdgeMap[k][2]
            deceptive_node == available_deceptive_nodes[niPointer + 1]
            pointer1 == niPointer + 1
            count1 == IF ~niReachedMax THEN niCount + 1 ELSE niCount
        IN /\ niRT' = NoRT
           /\ IF {node1, node2} \in niBaseEdges
              THEN /\ NISet(add_deceptive_node_graphs(NIState, deceptive_node,
                                                      node1, node2))
                   /\ niPointer' = next_pointer(pointer1)
                   /\ niCount' = count1
                   /\ niReachedMax' = (niReachedMax \/ count1 = MaxDeceptive)
                   /\ niOp' = [op |-> "add_deceptive_node", node |-> deceptive_node,
                               wasIso |-> niIsolated[deceptive_node], ok |-> TRUE]
                   /\ niOrder' = Append(SelectSeq(niOrder,
                                                  LAMBDA d : d # deceptive_node),
                                        deceptive_node)
              ELSE /\ niOp' = [op |-> "add_deceptive_node", node |-> "-",
                               wasIso |-> FALSE, ok |-> FALSE]
                   /\ UNCHANGED <<niBaseNodes, niBaseEdges, niCurNodes, niCurEdges,
                                  niIsolated, niPointer, niCount, niReachedMax,
                                  niOrder>>
           /\ UNCHANGED <<niEdgeMap, niNewOnRelocate>>
           /\ Others("NI")

NI_reset ==
    /\ niBaseNodes' = NINodes
    /\ niCurNodes' = NINodes
    /\ niBaseEdges' = {{niEdgeMap[i][1], niEdgeMap[i][2]} : i \in 1..Len(niEdgeMap)}
    /\ niCurEdges' = {{niEdgeMap[i][1], niEdgeMap[i][2]} : i \in 1..Len(niEdgeMap)}
    /\ niIsolated' = [n \in NIAllNodes |-> FALSE]
    /\ niPointer' = 0
    /\ niCount' = 0
    /\ niReachedMax' = FALSE
    /\ niOp' = [NoOp EXCEPT !.op = "reset"]
    /\ niRT' = NoRT
    /\ niOrder' = << >>
    /\ UNCHANGED <<niEdgeMap, niNewOnRelocate>>
    /\ Others("NI")

NextNI ==
    \/ NI_isolate_node
    \/ NI_reconnect_node
    \/ NI_add_deceptive_node
    \/ NI_reset

SpecNI == InitNI /\ [][NextNI]_vars


(***************************************************************************)
(* DiscreteActionSpace                                                     *)
(***************************************************************************)

\* the most actions the defender's configuration registers
MaxActions == 3
\* the largest explicit range of a range action
MaxRange == 2
\* the most hosts and the most subnets of the network
MaxTargets == 2

\* what a caller may pass to select_action: an int, a float (n is the value
\* in tenths), a string of decimal digits, another string, None
ActTypeInputs ==
    [kind : {"int"}, n : -2..(MaxActions * MaxRange + 1)]
    \cup [kind : {"float"}, n : {-5, 5, 17}]
    \cup [kind : {"numstr"}, n : {1}]
    \cup [kind : {"badstr", "none"}, n : {0}]

\* int(action): floats are truncated towards zero, digit strings are parsed,
\* other strings raise ValueError, None raises TypeError
IntOf(inp) ==
    CASE inp.kind = "int" -> [ok |-> TRUE, v |-> inp.n, err |-> "-"]
      [] inp.kind = "float" ->
            [ok |-> TRUE,
             v |-> IF inp.n >= 0 THEN inp.n \div 10 ELSE -((-inp.n) \div 10),
             err |-> "-"]
      [] inp.kind = "numstr" -> [ok |-> TRUE, v |-> inp.n, err |-> "-"]
      [] inp.kind = "badstr" -> [ok |-> FALSE, v |-> 0, err |-> "ValueError"]
      [] OTHER -> [ok |-> FALSE, v |-> 0, err |-> "TypeError"]

\* str.lower() on the type names a configuration may give
Lower(t) ==
    CASE t = "Host" -> "host"
      [] t = "Subnet" -> "subnet"
      [] t = "ICMP" -> "icmp"
      [] OTHER -> t

TypeInputs == {"standalone", "host", "Host", "subnet", "range", "", "node"}

check_range(ac, index) == ac.lower_bound <= index /\ index < ac.upper_bound

\* the first checker whose range holds the index, 0 when the loop runs out
FirstChecker(checkers, action) ==
    LET hits == {k \in 1..Len(checkers) : check_range(checkers[k], action)}
    IN IF hits = {} THEN 0 ELSE CHOOSE k \in hits : \A j \in hits : k <= j

select_action(checkers, num_hosts, num_subnets, inp) ==
    LET conv == IntOf(inp)
        action == conv.v
        k == FirstChecker(checkers, action)
        ac == checkers[k]
    IN IF ~conv.ok
       THEN [kind |-> "TypeError", entry |-> 0, index |-> 0]
       ELSE IF k = 0
       THEN [kind |-> "None", entry |-> 0, index |-> 0]
       ELSE IF ac.type = "standalone"
       THEN [kind |-> "ASReturn", entry |-> k, index |-> 0]
       ELSE IF ac.type = "host"
       THEN [kind |-> "ASReturn", entry |-> k,
             index |-> (action - ac.lower_bound) % num_hosts]
       ELSE IF ac.type = "subnet"
       THEN [kind |-> "ASReturn", entry |-> k,
             index |-> (action - ac.lower_bound) % num_subnets]
       ELSE IF ac.type = "range"
       THEN [kind |-> "ASReturn", entry |-> k,
             index |-> (action - ac.lower_bound) % (ac.upper_bound - ac.lower_bound)]
       ELSE [kind |-> "TypeError", entry |-> 0, index |-> 0]

\* add_action with the host branch copied from the subnet branch
add_action_host_as_subnet(size, checkers, num_hosts, num_subnets, type, range_) ==
    LET action_type == Lower(type)
        lower_bound == size
        grow == CASE action_type = "standalone" -> 1
                  [] action_type = "host" -> num_subnets
                  [] action_type = "subnet" -> num_subnets
                  [] action_type = "range" -> range_
                  [] OTHER -> 0
        bad == \/ action_type \notin {"standalone", "host", "subnet", "range"}
               \/ (action_type = "range" /\ range_ <= 0)
    IN IF bad
       THEN [size |-> size, checkers |-> checkers, err |-> "ValueError"]
       ELSE [size |-> size + grow,
             checkers |-> Append(checkers,
                 [type |-> action_type, lower_bound |-> lower_bound,
                  upper_bound |-> size + grow, range |-> range_]),
             err |-> "-"]

\* the checker record also keeps the range the caller asked for
add_action(size, checkers, num_hosts, num_subnets, type, range_) ==
    LET action_type == Lower(type)
        lower_bound == size
        grow == CASE action_type = "standalone" -> 1
                  [] action_type = "host" -> num_hosts
                  [] action_type = "subnet" -> num_subnets
                  [] action_type = "range" -> range_
                  [] OTHER -> 0
        bad == \/ action_type \notin {"standalone", "host", "subnet", "range"}
               \/ (action_type = "range" /\ range_ <= 0)
    IN IF bad
       THEN [size |-> size, checkers |-> checkers, err |-> "ValueError"]
       ELSE [size |-> size + grow,
             checkers |-> Append(checkers,
                 [type |-> action_type, lower_bound |-> lower_bound,
                  upper_bound |-> size + grow, range |-> range_]),
             err |-> "-"]

InitAS ==
    /\ asNumHosts \in 0..MaxTargets
    /\ asNumSubnets \in 1..MaxTargets
    /\ asSize = 0
    /\ asCheckers = << >>
    /\ asCall = NoCall
    /\ IdleOthers("AS")

AS_add_action ==
    /\ Len(asCheckers) < MaxActions
    /\ \E type \in TypeInputs, range_ \in 0..MaxRange :
          LET r == add_action(asSize, asCheckers, asNumHosts, asNumSubnets,
                              type, range_)
          IN /\ asSize' = r.size
             /\ asCheckers' = r.checkers
             /\ asCall' = [op |-> "add_action", inp |-> [kind |-> "int", n |-> range_],
                           res |-> [kind |-> r.err, entry |-> 0, index |-> 0]]
    /\ UNCHANGED <<asNumHosts, asNumSubnets>>
    /\ Others("AS")

AS_select_action ==
    /\ \E inp \in ActTypeInputs :
          asCall' = [op |-> "select_action", inp |-> inp,
                     res |-> select_action(asCheckers, asNumHosts, asNumSubnets, inp)]
    /\ UNCHANGED <<asNumHosts, asNumSubnets, asSize, asCheckers>>
    /\ Others("AS")

NextAS ==
    \/ AS_add_action
    \/ AS_select_action

SpecAS == InitAS /\ [][NextAS]_vars


(***************************************************************************)
(* Firewall evaluation of the cyberwheel Network                           *)
(***************************************************************************)

\* the most firewall rules the network holds, all objects together
MaxRules == 2

\* one router, two subnets on it, one host on each subnet
FWObjects == {"r1", "s1", "h1"}
SrcInputs == {"h2", "s2"}
DestInputs == {"h1", "s1", "r1"}

FWKind(name) ==
    CASE name \in {"h1", "h2"} -> "Host"
      [] name \in {"s1", "s2"} -> "Subnet"
      [] OTHER -> "Router"

SubnetOf(host) == IF host = "h1" THEN "s1" ELSE "s2"
RouterOf(subnet) == "r1"

\* a port as Python holds it: None, an int or a str
PyNone == [kind |-> "None", n |-> 0, s |-> ""]
PyInt(i) == [kind |-> "int", n |-> i, s |-> ""]
PyString(t) == [kind |-> "str", n |-> 0, s |-> t]

\* str(): the decimal digits of the ints in use
PyStr(v) ==
    CASE v.kind = "None" -> "None"
      [] v.kind = "str" -> v.s
      [] v.n = 0 -> "0"
      [] v.n = 80 -> "80"
      [] v.n = 443 -> "443"
      [] OTHER -> "?"

PortInputs == {PyNone, PyInt(0), PyInt(80), PyInt(443)}
ProtoInputs == {"tcp", "icmp", "ICMP"}

\* the rules a configuration gives: dicts with a dest key, a dict without
\* one (as in Router's docstring) and a FirewallRule object (as built for
\* hosts)
RuleInputs == {
    [form |-> "dict", name |-> "any", src |-> "all", dest |-> "all",
     port |-> PyString("all"), proto |-> "all"],
    [form |-> "dict", name |-> "web", src |-> "all", dest |-> "all",
     port |-> PyInt(80), proto |-> "tcp"],
    [form |-> "dict", name |-> "ping", src |-> "all", dest |-> "all",
     port |-> PyInt(80), proto |-> "icmp"],
    [form |-> "dict", name |-> "s2s1", src |-> "s2", dest |-> "s1",
     port |-> PyString("all"), proto |-> "all"],
    [form |-> "nodest", name |-> "https", src |-> "all", dest |-> "-",
     port |-> PyInt(443), proto |-> "tcp"],
    [form |-> "object", name |-> "allow all", src |-> "all", dest |-> "-",
     port |-> PyString("all"), proto |-> "tcp"] }

\* "True", "False" or the exception raised
_is_valid_port_number(port) ==
    IF port.kind = "str" /\ port.s = "all" THEN "True"
    ELSE IF port.kind = "None" THEN "TypeError"
    ELSE IF port.n > 65535 \/ port.n < 1 THEN "False"
    ELSE "True"

_does_src_match(src, rule, type) ==
    IF rule.form = "object" THEN "TypeError"
    ELSE IF src = rule.src \/ rule.src = "all" THEN "True"
    ELSE IF type = "host"
    THEN IF FWKind(src) # "Host" THEN "AttributeError"
         ELSE IF RouterOf(SubnetOf(src)) = rule.src \/ SubnetOf(src) = rule.src
              THEN "True" ELSE "False"
    ELSE IF type = "subnet"
    THEN IF FWKind(src) # "Subnet" THEN "AttributeError"
         ELSE IF RouterOf(src) = rule.src THEN "True" ELSE "False"
    ELSE "False"

_does_dest_match(dest, rule, type) ==
    IF rule.form = "object" THEN "TypeError"
    ELSE IF rule.form = "nodest" THEN "KeyError"
    ELSE IF dest = rule.dest \/ rule.dest = "all" THEN "True"
    ELSE IF type = "host"
    THEN IF FWKind(dest) # "Host" THEN "AttributeError"
         ELSE IF RouterOf(SubnetOf(dest)) = rule.dest \/ SubnetOf(dest) = rule.dest
              THEN "True" ELSE "False"
    ELSE IF type = "subnet"
    THEN IF FWKind(dest) # "Subnet" THEN "AttributeError"
         ELSE IF RouterOf(dest) = rule.dest THEN "True" ELSE "False"
    ELSE "False"

_does_port_match(port, rule) ==
    IF PyStr(rule.port) = port \/ PyStr(rule.port) = "all" THEN "True" ELSE "False"

_does_proto_match(proto, rule) ==
    IF rule.proto = proto \/ rule.proto = "all" THEN "True" ELSE "False"

\* the loop over dest.firewall_rules: its body leaves the loop on the first
\* rule, by break (then False is returned), by return True or by an exception
_check_rules(rules, src, dest, port, proto, type) ==
    IF rules[dest] = << >> THEN "False"
    ELSE LET rule == Head(rules[dest])
             m1 == _does_src_match(src, rule, type)
             m2 == _does_dest_match(dest, rule, type)
             m3 == _does_port_match(PyStr(port), rule)
             m4 == _does_proto_match(proto, rule)
         IN IF m1 # "True" THEN m1
            ELSE IF m2 # "True" THEN m2
            ELSE IF m3 # "True" THEN m3
            ELSE m4

\* the objects whose rules are evaluated, in order, and the type passed on
EvalChain(dest) ==
    CASE FWKind(dest) = "Host" -> <<RouterOf(SubnetOf(dest)), SubnetOf(dest), dest>>
      [] FWKind(dest) = "Subnet" -> <<RouterOf(dest), dest>>
      [] OTHER -> <<dest>>

EvalType(dest) ==
    CASE FWKind(dest) = "Host" -> "host"
      [] FWKind(dest) = "Subnet" -> "subnet"
      [] OTHER -> "router"

is_traffic_allowed(rules, src, dest, port, proto) ==
    LET valid == IF Lower(proto) = "icmp" THEN "True"
                 ELSE _is_valid_port_number(port)
        chain == EvalChain(dest)
        c(i) == _check_rules(rules, src, chain[i], port, proto, EvalType(dest))
        bad == {i \in 1..Len(chain) : c(i) # "True"}
    IN IF valid = "TypeError" THEN "TypeError"
       ELSE IF valid = "False" THEN "ValueError"
       ELSE IF bad = {} THEN "True"
       ELSE c(CHOOSE i \in bad : \A j \in bad : i <= j)

RuleCount(rules) == Len(rules["r1"]) + Len(rules["s1"]) + Len(rules["h1"])

\* rule lists as the builders leave them: none for the router and the
\* subnet, none or one FirewallRule() for the host
InitFW ==
    /\ fwRules \in {[o \in FWObjects |-> << >>],
                    [o \in FWObjects |->
                        IF o = "h1"
                        THEN << [form |-> "object", name |-> "allow all",
                                 src |-> "all", dest |-> "-",
                                 port |-> PyString("all"), proto |-> "tcp"] >>
                        ELSE << >>]}
    /\ fwCall = NoFwCall
    /\ IdleOthers("FW")

FW_add_firewall_rule ==
    /\ RuleCount(fwRules) < MaxRules
    /\ \E o \in FWObjects, rule \in RuleInputs :
          /\ fwRules' = [fwRules EXCEPT ![o] = Append(@, rule)]
          /\ fwCall' = [NoFwCall EXCEPT !.op = "add_firewall_rule", !.dest = o]
    /\ Others("FW")

\* rule.name is read from every rule: a dict in the list raises
\* AttributeError and the list stays as it was
FW_remove_firewall_rule ==
    /\ \E o \in FWObjects, rule_name \in {r.name : r \in RuleInputs} :
          LET keep == SelectSeq(fwRules[o], LAMBDA r : r.name # rule_name)
              dicts == {i \in 1..Len(fwRules[o]) : fwRules[o][i].form # "object"}
          IN /\ fwRules' = IF dicts = {} THEN [fwRules EXCEPT ![o] = keep]
                           ELSE fwRules
             /\ fwCall' = [NoFwCall EXCEPT !.op = "remove_firewall_rule", !.dest = o,
                              !.res = IF dicts = {} THEN "None" ELSE "AttributeError"]
    /\ Others("FW")

FW_is_traffic_allowed ==
    /\ \E src \in SrcInputs, dest \in DestInputs, port \in PortInputs,
          proto \in ProtoInputs :
          fwCall' = [op |-> "is_traffic_allowed", src |-> src, dest |-> dest,
                     port |-> port, proto |-> proto,
                     res |-> is_traffic_allowed(fwRules, src, dest, port, proto)]
    /\ UNCHANGED fwRules
    /\ Others("FW")

NextFW ==
    \/ FW_add_firewall_rule
    \/ FW_remove_firewall_rule
    \/ FW_is_traffic_allowed

SpecFW == InitFW /\ [][NextFW]_vars

(***************************************************************************)
(* The cyberwheel Network and the defender's actions                       *)
(***************************************************************************)

\* the most decoys the defender creates in a run
MaxDecoys == 1
\* the most entries of disconnected_nodes
MaxDisconnects == 1
\* the most commands in a host's command_history
MaxCommands == 1
\* IsolateData.size as configured
IsolateSize == 1

\* one router, one subnet with three addresses, one user host holding a
\* lease
UserHosts == {"h1"}
DecoyIds == <<"d1", "d2", "d3", "d4">>
HostNames == UserHosts \cup {DecoyIds[i] : i \in 1..Len(DecoyIds)}
IPs == 1..3
InitNodes == {"r1", "s1", "h1"}
InitEdges == {<<"s1", "r1">>, <<"h1", "s1">>}

\* a Host as its constructor leaves it; ip_address 0: the attribute is not set
NewHost(decoy) ==
    [isolated |-> FALSE, restored |-> FALSE, is_compromised |-> FALSE,
     command_history |-> 0, ip_address |-> 0, decoy |-> decoy]

NetState ==
    [nodes |-> netNodes, data |-> netData, edges |-> netEdges,
     decoys |-> netDecoys, disconnected |-> netDisconnected, host |-> netHost,
     pool |-> netPool, connected |-> netConnected, err |-> "-"]

Raise(st, e) == [st EXCEPT !.err = e]

get_hosts(st) == {n \in st.data : n \in HostNames}

PoolEmpty(st) == \A ip \in IPs : st.pool[ip] = 0

add_node(st, node) ==
    [st EXCEPT !.nodes = @ \cup {node}, !.data = @ \cup {node}]

remove_node(st, node) ==
    [st EXCEPT !.nodes = @ \ {node}, !.data = @ \ {node},
               !.edges = {e \in @ : e[1] # node /\ e[2] # node}]

\* add_edge also creates the end nodes that are missing, without data
connect_nodes(st, node1, node2) ==
    [st EXCEPT !.nodes = @ \cup {node1, node2},
               !.edges = @ \cup {<<node1, node2>>}]

disconnect_nodes(st, node1, node2) ==
    IF <<node1, node2>> \notin st.edges
    THEN Raise(st, "NetworkXError")
    ELSE [st EXCEPT !.edges = @ \ {<<node1, node2>>},
                    !.disconnected = Append(@, <<node1, node2>>)]

isolate_host(st, host, subnet) ==
    disconnect_nodes([st EXCEPT !.host[host].isolated = TRUE], host, subnet)

\* ip_lease is the address random.choice draws
assign_dhcp_lease(st, host_obj, ip_lease) ==
    IF PoolEmpty(st)
    THEN Raise(st, "ValueError")
    ELSE [st EXCEPT !.pool[ip_lease] = @ - 1,
                    !.connected = Append(@, host_obj),
                    !.host[host_obj].ip_address = ip_lease]

add_host_to_subnet(st, name, subnet, decoy, ip_lease) ==
    LET s1 == add_node([st EXCEPT !.host[name] = NewHost(decoy)], name)
        s2 == connect_nodes(s1, name, subnet)
        s3 == assign_dhcp_lease(s2, name, ip_lease)
    IN IF s3.err # "-" THEN s3
       ELSE [s3 EXCEPT !.host[name].decoy = decoy]

remove_host_from_subnet(st, host) ==
    IF st.host[host].ip_address = 0
    THEN Raise(st, "AttributeError")
    ELSE LET ip == st.host[host].ip_address
             s1 == [st EXCEPT !.pool[ip] = @ + 1]
         IN IF host \in get_hosts(s1)
            THEN [remove_node(s1, host) EXCEPT
                     !.connected = SelectSeq(@, LAMBDA h : h # host)]
            ELSE s1

create_decoy_host(st, name, subnet, ip_lease) ==
    LET s1 == add_host_to_subnet(st, name, subnet, TRUE, ip_lease)
    IN IF s1.err # "-" THEN s1
       ELSE [s1 EXCEPT !.decoys = Append(@, name)]

\* decoys.remove(i) looks for a list element equal to the integer i
remove_decoy_host(st, host) ==
    LET s1 == IF host \in get_hosts(st) THEN remove_host_from_subnet(st, host)
              ELSE st
    IN IF s1.err # "-" THEN s1
       ELSE IF s1.decoys = << >> THEN Raise(s1, "UnboundLocalError")
       ELSE Raise(s1, "ValueError")

RECURSIVE RemoveDecoys(_, _)
RemoveDecoys(st, decoys) ==
    IF decoys = << >> \/ st.err # "-" THEN st
    ELSE RemoveDecoys(remove_host_from_subnet(st, Head(decoys)), Tail(decoys))

RECURSIVE Reconnect(_, _)
Reconnect(st, edges) ==
    IF edges = << >> THEN st
    ELSE Reconnect(connect_nodes(st, Head(edges)[1], Head(edges)[2]), Tail(edges))

\* reset that keeps the decoy registry
reset_keep_decoys(st) ==
    LET s1 == RemoveDecoys(st, st.decoys)
        s2 == s1
        s3 == [Reconnect(s2, s2.disconnected) EXCEPT !.disconnected = << >>]
    IN IF s1.err # "-" THEN s1
       ELSE [s3 EXCEPT !.host =
                [h \in DOMAIN s3.host |->
                    IF h \in get_hosts(s3)
                    THEN [s3.host[h] EXCEPT !.command_history = 0,
                                            !.is_compromised = FALSE,
                                            !.isolated = FALSE,
                                            !.restored = FALSE]
                    ELSE s3.host[h]]]

reset(st) ==
    LET s1 == RemoveDecoys(st, st.decoys)
        s2 == [s1 EXCEPT !.decoys = << >>]
        s3 == [Reconnect(s2, s2.disconnected) EXCEPT !.disconnected = << >>]
    IN IF s1.err # "-" THEN s1
       ELSE [s3 EXCEPT !.host =
                [h \in DOMAIN s3.host |->
                    IF h \in get_hosts(s3)
                    THEN [s3.host[h] EXCEPT !.command_history = 0,
                                            !.is_compromised = FALSE,
                                            !.isolated = FALSE,
                                            !.restored = FALSE]
                    ELSE s3.host[h]]]

NetSet(st) ==
    /\ netNodes' = st.nodes
    /\ netData' = st.data
    /\ netEdges' = st.edges
    /\ netDecoys' = st.decoys
    /\ netDisconnected' = st.disconnected
    /\ netHost' = st.host
    /\ netPool' = st.pool
    /\ netConnected' = st.connected

\* the addresses random.choice can draw; 0 stands in when the pool is empty
Leases == IF PoolEmpty(NetState) THEN {0} ELSE {ip \in IPs : netPool[ip] > 0}

Outcome(st, ok) == IF st.err # "-" THEN st.err ELSE ok

\* the nodes reached from src along at most k edges of the directed graph
RECURSIVE ReachIn(_, _, _)
ReachIn(st, src, k) ==
    IF k = 0 THEN {src}
    ELSE LET r == ReachIn(st, src, k - 1)
         IN r \cup {m \in st.nodes : \E n \in r : <<n, m>> \in st.edges}

\* the number of edges of a shortest path, -1 when there is none
Distance(st, src, dst) ==
    LET far == Cardinality(st.nodes)
    IN IF dst \notin ReachIn(st, src, far) THEN -1
       ELSE CHOOSE k \in 0..far :
               /\ dst \in ReachIn(st, src, k)
               /\ k = 0 \/ dst \notin ReachIn(st, src, k - 1)

\* nx.shortest_path: the shortest paths it may return
RECURSIVE shortest_path(_, _, _)
shortest_path(st, src, dst) ==
    IF src = dst THEN {<<src>>}
    ELSE UNION {{Append(p, dst) : p \in shortest_path(st, src, m)} :
                m \in {n \in st.nodes :
                          /\ <<n, dst>> \in st.edges
                          /\ Distance(st, src, n) >= 0
                          /\ Distance(st, src, n) + 1 = Distance(st, src, dst)}}

\* what the loop over a path may put in place of a node: for a Subnet one
\* of the hosts among graph.neighbors(node), the subnet itself when there
\* is none
Replacements(st, node) ==
    LET connected_hosts == {n \in get_hosts(st) : <<node, n>> \in st.edges}
    IN IF node \in st.data /\ node = "s1" /\ connected_hosts # {}
       THEN connected_hosts
       ELSE {node}

\* the values find_path_between_hosts may return: None or a path
NoPath == [kind |-> "None", path |-> << >>]

find_path_between_hosts(st, source_host, target_host) ==
    IF source_host \notin st.nodes \/ target_host \notin st.nodes THEN {NoPath}
    ELSE IF Distance(st, source_host, target_host) < 0 THEN {NoPath}
    ELSE UNION {{[kind |-> "list", path |-> q] :
                    q \in {r \in [1..Len(p) -> st.nodes] :
                              \A i \in 1..Len(p) : r[i] \in Replacements(st, p[i])}} :
                p \in shortest_path(st, source_host, target_host)}

\* HistoryObservation over the user host: the current alert bit and the
\* history bit
reset_obs_vector == <<0, 0>>

create_obs_vector(obs_vec, alerts) ==
    IF \E i \in 1..Len(alerts) : alerts[i] = "h1" THEN <<1, 1>>
    ELSE <<0, obs_vec[2]>>

InitNet ==
    /\ netNodes = InitNodes
    /\ netData = InitNodes
    /\ netEdges = InitEdges
    /\ netDecoys = << >>
    /\ netDisconnected = << >>
    /\ netHost = [h \in HostNames |->
                     IF h = "h1" THEN [NewHost(FALSE) EXCEPT !.ip_address = 1]
                     ELSE NewHost(TRUE)]
    /\ netPool = [ip \in IPs |-> IF ip = 1 THEN 0 ELSE 1]
    /\ netConnected = <<"h1">>
    /\ netNext = 0
    /\ netDecoyList = << >>
    /\ netQuarantine = << >>
    /\ netIsolateData = << >>
    /\ netObs = <<0, 0>>
    /\ netOp = NoNetOp
    /\ netBudget = MaxDecoys
    /\ IdleOthers("Net")

NET_DeployDecoyHost ==
    /\ netNext < netBudget
    /\ \E ip_lease \in Leases :
          LET name == DecoyIds[netNext + 1]
              st == create_decoy_host(NetState, name, "s1", ip_lease)
          IN /\ NetSet(st)
             /\ netDecoyList' = IF st.err = "-" THEN Append(netDecoyList, name)
                                ELSE netDecoyList
             /\ netOp' = [op |-> "DeployDecoyHost", arg |-> name,
                          res |-> Outcome(st, "True")]
    /\ netNext' = netNext + 1
    /\ UNCHANGED <<netQuarantine, netIsolateData>>
    /\ UNCHANGED netObs
    /\ UNCHANGED netBudget
    /\ Others("Net")

NET_IsolateDecoyHost ==
    /\ netNext < netBudget
    /\ \E ip_lease \in Leases :
          LET name == DecoyIds[netNext + 1]
              st == create_decoy_host(NetState, name, "s1", ip_lease)
              room == Len(netIsolateData) < IsolateSize
          IN /\ NetSet(st)
             /\ netIsolateData' = IF st.err = "-" /\ room
                                  THEN Append(netIsolateData, name)
                                  ELSE netIsolateData
             /\ netOp' = [op |-> "IsolateDecoyHost", arg |-> name,
                          res |-> Outcome(st, IF room THEN "True" ELSE "False")]
    /\ netNext' = netNext + 1
    /\ UNCHANGED <<netQuarantine, netDecoyList>>
    /\ UNCHANGED netObs
    /\ UNCHANGED netBudget
    /\ Others("Net")

NET_RemoveDecoyHost ==
    /\ LET found == {i \in 1..Len(netConnected) : netHost[netConnected[i]].decoy}
           host == netConnected[CHOOSE i \in found : \A j \in found : i <= j]
           st == IF found = {} THEN NetState
                 ELSE remove_host_from_subnet(NetState, host)
       IN /\ NetSet(st)
          /\ netOp' = [op |-> "RemoveDecoyHost",
                       arg |-> IF found = {} THEN "-" ELSE host,
                       res |-> Outcome(st, IF found = {} THEN "False" ELSE "True")]
    /\ UNCHANGED <<netNext, netDecoyList, netQuarantine, netIsolateData>>
    /\ UNCHANGED netObs
    /\ UNCHANGED netBudget
    /\ Others("Net")

NET_IsolateDecoy ==
    /\ \E i \in 0..IsolateSize :
          LET host == netIsolateData[i + 1]
              skip == IF i >= Len(netIsolateData) THEN TRUE
                      ELSE netHost[host].isolated
              st == IF skip THEN NetState ELSE isolate_host(NetState, host, "s1")
          IN /\ IF skip THEN TRUE ELSE Len(netDisconnected) < MaxDisconnects
             /\ NetSet(st)
             /\ netOp' = [op |-> "IsolateDecoy",
                          arg |-> IF i >= Len(netIsolateData) THEN "-" ELSE host,
                          res |-> Outcome(st, IF skip THEN "False" ELSE "True")]
    /\ UNCHANGED <<netNext, netDecoyList, netQuarantine, netIsolateData>>
    /\ UNCHANGED netObs
    /\ UNCHANGED netBudget
    /\ Others("Net")

NET_QuarantineHost ==
    /\ \E host \in UserHosts :
          LET listed == \E i \in 1..Len(netQuarantine) : netQuarantine[i] = host
              st == IF listed THEN NetState ELSE isolate_host(NetState, host, "s1")
          IN /\ IF listed THEN TRUE ELSE Len(netDisconnected) < MaxDisconnects
             /\ NetSet(st)
             /\ netQuarantine' = IF listed \/ st.err # "-" THEN netQuarantine
                                 ELSE Append(netQuarantine, host)
             /\ netOp' = [op |-> "QuarantineHost", arg |-> host,
                          res |-> Outcome(st, IF listed THEN "False" ELSE "True")]
    /\ UNCHANGED <<netNext, netDecoyList, netIsolateData>>
    /\ UNCHANGED netObs
    /\ UNCHANGED netBudget
    /\ Others("Net")

NET_RemoveQuarantineHost ==
    /\ \E host \in UserHosts :
          LET listed == {i \in 1..Len(netQuarantine) : netQuarantine[i] = host}
              first == CHOOSE i \in listed : \A j \in listed : i <= j
              st == IF listed = {} THEN NetState
                    ELSE connect_nodes(NetState, host, "s1")
          IN /\ NetSet(st)
             /\ netQuarantine' =
                   IF listed = {} THEN netQuarantine
                   ELSE SubSeq(netQuarantine, 1, first - 1)
                        \o SubSeq(netQuarantine, first + 1, Len(netQuarantine))
             /\ netOp' = [op |-> "RemoveQuarantineHost", arg |-> host,
                          res |-> IF listed = {} THEN "False" ELSE "True"]
    /\ UNCHANGED <<netNext, netDecoyList, netIsolateData>>
    /\ UNCHANGED netObs
    /\ UNCHANGED netBudget
    /\ Others("Net")

\* a Restore that does not look at the flag
already_restored_never(host_data) == FALSE

\* Restore.execute: the check of host.restored
already_restored(host_data) == host_data.restored

NET_Restore ==
    /\ \E host \in UserHosts :
          /\ NetSet(IF already_restored(netHost[host]) THEN NetState
                    ELSE [NetState EXCEPT !.host[host].restored = TRUE])
          /\ netOp' = [op |-> "Restore", arg |-> host,
                       res |-> IF already_restored(netHost[host]) THEN "False"
                               ELSE "True"]
    /\ UNCHANGED <<netNext, netDecoyList, netQuarantine, netIsolateData>>
    /\ UNCHANGED netObs
    /\ UNCHANGED netBudget
    /\ Others("Net")

NET_remove_decoy_host ==
    /\ \E i \in 1..netNext :
          LET st == remove_decoy_host(NetState, DecoyIds[i])
          IN /\ NetSet(st)
             /\ netOp' = [op |-> "remove_decoy_host", arg |-> DecoyIds[i],
                          res |-> st.err]
    /\ UNCHANGED <<netNext, netDecoyList, netQuarantine, netIsolateData>>
    /\ UNCHANGED netObs
    /\ UNCHANGED netBudget
    /\ Others("Net")

\* get_node_from_name raises KeyError for a node that is missing or has no data
NET_set_host_compromised ==
    /\ \E host \in UserHosts :
          /\ NetSet(IF host \in netData
                    THEN [NetState EXCEPT !.host[host].is_compromised = TRUE]
                    ELSE NetState)
          /\ netOp' = [op |-> "set_host_compromised", arg |-> host,
                       res |-> IF host \in netData THEN "None" ELSE "KeyError"]
    /\ UNCHANGED <<netNext, netDecoyList, netQuarantine, netIsolateData>>
    /\ UNCHANGED netObs
    /\ UNCHANGED netBudget
    /\ Others("Net")

NET_run_command ==
    /\ \E host \in UserHosts :
          /\ netHost[host].command_history < MaxCommands
          /\ NetSet([NetState EXCEPT !.host[host].command_history = @ + 1])
          /\ netOp' = [op |-> "run_command", arg |-> host, res |-> "None"]
    /\ UNCHANGED <<netNext, netDecoyList, netQuarantine, netIsolateData>>
    /\ UNCHANGED netObs
    /\ UNCHANGED netBudget
    /\ Others("Net")

\* a reset of the defender that leaves the shared data as it is
clear_nothing(v) == v

\* DynamicBlueAgent.reset: v.clear() for every value of shared_data
clear(v) == << >>

\* the environment's reset: Network.reset(), then the defender's shared
\* data is cleared
NET_reset ==
    /\ LET st == reset(NetState)
       IN /\ NetSet(st)
          /\ netOp' = [op |-> "reset",
                       arg |-> IF netOp.op = "reset" /\ netOp.res = "None"
                               THEN "again" ELSE "-",
                       res |-> Outcome(st, "None")]
          /\ IF st.err = "-"
             THEN /\ netDecoyList' = clear(netDecoyList)
                  /\ netQuarantine' = clear(netQuarantine)
                  /\ netIsolateData' = clear(netIsolateData)
                  /\ netObs' = reset_obs_vector
             ELSE UNCHANGED <<netDecoyList, netQuarantine, netIsolateData, netObs>>
    /\ UNCHANGED netNext
    /\ UNCHANGED netBudget
    /\ Others("Net")

\* find_path_between_hosts from a user host to any host
NET_find_path_between_hosts ==
    /\ \E source_host \in UserHosts, target_host \in HostNames :
          \E path \in find_path_between_hosts(NetState, source_host, target_host) :
             netOp' = [op |-> "find_path_between_hosts",
                       arg |-> <<source_host, target_host>>, res |-> path]
    /\ UNCHANGED <<netNodes, netData, netEdges, netDecoys, netDisconnected,
                   netHost, netPool, netConnected, netNext, netDecoyList,
                   netQuarantine, netIsolateData, netObs>>
    /\ UNCHANGED netBudget
    /\ Others("Net")

\* the alert converter's create_obs_vector(alerts) of a step, for alerts
\* with or without the user host as source
NET_create_obs_vector ==
    /\ \E alerts \in {<< >>, <<"h1">>} :
          /\ netObs' = create_obs_vector(netObs, alerts)
          /\ netOp' = [op |-> "create_obs_vector", arg |-> "-", res |-> "None"]
    /\ UNCHANGED <<netNodes, netData, netEdges, netDecoys, netDisconnected,
                   netHost, netPool, netConnected, netNext, netDecoyList,
                   netQuarantine, netIsolateData>>
    /\ UNCHANGED netBudget
    /\ Others("Net")

NextNet ==
    \/ NET_DeployDecoyHost
    \/ NET_IsolateDecoyHost
    \/ NET_RemoveDecoyHost
    \/ NET_IsolateDecoy
    \/ NET_QuarantineHost
    \/ NET_RemoveQuarantineHost
    \/ NET_Restore
    \/ NET_remove_decoy_host
    \/ NET_set_host_compromised
    \/ NET_run_command
    \/ NET_reset
    \/ NET_create_obs_vector

SpecNet == InitNet /\ [][NextNet]_vars

\* path queries on a network whose hosts come, go and are isolated
NextPath ==
    \/ NET_DeployDecoyHost
    \/ NET_RemoveDecoyHost
    \/ NET_QuarantineHost
    \/ NET_RemoveQuarantineHost
    \/ NET_find_path_between_hosts
    \/ NET_reset

SpecPath == InitNet /\ [][NextPath]_vars

\* the most decoys the defender creates in a run of deployments
MaxDeploys == 3

\* a run of deployments and removals of decoy hosts on the same network
InitDeploy ==
    /\ netNodes = InitNodes
    /\ netData = InitNodes
    /\ netEdges = InitEdges
    /\ netDecoys = << >>
    /\ netDisconnected = << >>
    /\ netHost = [h \in HostNames |->
                     IF h = "h1" THEN [NewHost(FALSE) EXCEPT !.ip_address = 1]
                     ELSE NewHost(TRUE)]
    /\ netPool = [ip \in IPs |-> IF ip = 1 THEN 0 ELSE 1]
    /\ netConnected = <<"h1">>
    /\ netNext = 0
    /\ netDecoyList = << >>
    /\ netQuarantine = << >>
    /\ netIsolateData = << >>
    /\ netObs = <<0, 0>>
    /\ netOp = NoNetOp
    /\ netBudget = MaxDeploys
    /\ IdleOthers("Net")

NextDeploy ==
    \/ NET_DeployDecoyHost
    \/ NET_IsolateDecoyHost
    \/ NET_RemoveDecoyHost
    \/ NET_reset

SpecDeploy == InitDeploy /\ [][NextDeploy]_vars

(***************************************************************************)
(* ARTAgent: the attacker's kill chain.  A phase succeeds when the         *)
(* services map holds a valid technique for it on the target.  The atomic  *)
(* test drawn for a technique either lists no commands, or lists some and  *)
(* sim_execute raises TypeError at host.run_command(executor, p, user),    *)
(* which takes one argument; the turn then ends with nothing changed.      *)
(***************************************************************************)

\* turns are taken while the hosts' last_step is below this value
MaxLastStep == 4

\* the most hosts in quarantine at a time
MaxQuarantined == 1

killchain == <<"discovery", "privilege-escalation", "impact">>
no_update == {"lateral-movement", "pingsweep", "portscan"}
all_kcps == {killchain[i] : i \in 1..Len(killchain)} \cup {"lateral-movement"}

\* two hosts on subnet s1, one on s2; h1 has an interface to h3
RedHosts == {"h1", "h2", "h3"}
RedSubnetsAll == {"s1", "s2"}

\* the name of the decoy host the defender may deploy, in either subnet
RedDecoys == {"d1"}
RedNames == RedHosts \cup RedDecoys

\* host.subnet; "-" for a decoy that is not in the network
SubnetOfHost(h) ==
    IF h \in RedDecoys THEN redDecoySubnet[h]
    ELSE IF h = "h3" THEN "s2" ELSE "s1"
connected_hosts(subnet) == {h \in RedNames : SubnetOfHost(h) = subnet}
interfaces(h) == IF h = "h1" THEN {"h3"} ELSE {}

\* network.get_host_names()
red_host_names == {h \in RedNames : SubnetOfHost(h) # "-"}

\* f on the user hosts, v on the decoy names
WithDecoys(f, v) == [h \in RedNames |-> IF h \in RedHosts THEN f[h] ELSE v]

HostTypeNames == {"Server", "Workstation", "Printer"}

Min(a, b) == IF a < b THEN a ELSE b

\* KnownHostInfo(); known tells whether history.hosts has the entry
KnownHostInfo(sweeped) ==
    [known |-> TRUE, last_step |-> -1, ports_scanned |-> FALSE,
     ping_sweeped |-> sweeped, type |-> "Unknown", impacted |-> FALSE]

NoHostInfo == [KnownHostInfo(FALSE) EXCEPT !.known = FALSE]

\* update_killchain_step that skips a step
update_killchain_step_skip(info) == [info EXCEPT !.last_step = @ + 2]

update_killchain_step(info) == [info EXCEPT !.last_step = @ + 1]

\* get_next_step that never leaves the first phase
get_next_step_first(info) == 0

get_next_step(info) == info.last_step + 1

\* AgentHistory(initial_host)
AgentHistoryHosts(entry) ==
    [h \in RedNames |-> IF h = entry THEN KnownHostInfo(FALSE) ELSE NoHostInfo]

AgentHistorySubnets(entry) ==
    [sn \in RedSubnetsAll |-> IF sn = SubnetOfHost(entry) THEN "known" ELSE "absent"]

\* handle_network_change: the hosts of the network that are not tracked
red_new_hosts == red_host_names \ redTracked

\* handle_network_change: the new hosts that enter the history, those whose
\* subnet is_scanned()
red_new_known ==
    {h \in red_new_hosts : redSubnets[SubnetOfHost(h)] = "scanned"}

\* history.hosts after handle_network_change
handle_network_change_hosts ==
    [h \in RedNames |->
        IF h \in red_new_known THEN KnownHostInfo(FALSE) ELSE redHosts[h]]

\* a strategy that never leaves the current host
ServerDowntime_select_target_stay(hosts, unknowns) == {redCurrent}

\* ServerDowntime.select_target: the hosts it may return, None included
ServerDowntime_select_target(hosts, unknowns) ==
    IF hosts[redCurrent].type = "Unknown" \/ redCurrent \in redUnimpacted
    THEN {redCurrent}
    ELSE IF redUnimpacted # {} THEN redUnimpacted
    ELSE IF unknowns # {} THEN unknowns
    ELSE {"None"}

\* a strategy that moves to any known host once the current one is done
DFSImpact_select_target_any(hosts) ==
    IF hosts[redCurrent].last_step = Len(killchain) - 1
    THEN {h \in RedNames : hosts[h].known}
    ELSE {redCurrent}

\* DFSImpact.select_target
DFSImpact_select_target(hosts) ==
    LET unimpacted_hosts ==
            {h \in RedNames : hosts[h].known
                              /\ hosts[h].last_step < Len(killchain) - 1}
    IN IF hosts[redCurrent].last_step = Len(killchain) - 1
          /\ unimpacted_hosts # {}
       THEN unimpacted_hosts
       ELSE {redCurrent}

select_next_target(hosts, unknowns) ==
    IF redStrategy = "ServerDowntime"
    THEN ServerDowntime_select_target(hosts, unknowns)
    ELSE DFSImpact_select_target(hosts)

\* run_action that does not look at where the attacker is
run_action_anywhere(host_info, on_target) ==
    IF ~host_info.ping_sweeped THEN "pingsweep"
    ELSE IF ~host_info.ports_scanned THEN "portscan"
    ELSE killchain[Min(get_next_step(host_info), Len(killchain) - 1) + 1]

\* the action run_action executes on the target
run_action(host_info, on_target) ==
    IF ~host_info.ping_sweeped THEN "pingsweep"
    ELSE IF ~host_info.ports_scanned THEN "portscan"
    ELSE IF ~on_target THEN "lateral-movement"
    ELSE killchain[Min(get_next_step(host_info), Len(killchain) - 1) + 1]

\* sim_execute: the scans always find a technique, a phase needs a valid one
attack_success(action, target) ==
    action \in {"pingsweep", "portscan"} \/ action \in redValid[target]

\* sim_execute raises when the chosen atomic test lists commands
attack_raises(action, target, has_commands) ==
    has_commands /\ attack_success(action, target)

\* add_host_info for the 'type' metadata of a successful discovery
known_type(host_type) ==
    CASE host_type = "Server" -> "Server"
      [] host_type = "Workstation" -> "User"
      [] OTHER -> "Unknown"

\* history.hosts after _ping_sweep on target and the metadata it returns
SweepHosts(hosts, target) ==
    LET covered == connected_hosts(SubnetOfHost(target))
        ifaces == UNION {interfaces(h) : h \in covered}
    IN [h \in RedNames |->
           IF h \in covered
           THEN IF hosts[h].known THEN [hosts[h] EXCEPT !.ping_sweeped = TRUE]
                ELSE KnownHostInfo(TRUE)
           ELSE IF h \in ifaces /\ ~hosts[h].known THEN KnownHostInfo(FALSE)
           ELSE hosts[h]]

InitRed ==
    /\ redStrategy \in {"ServerDowntime", "DFSImpact"}
    /\ \E types \in [RedHosts -> HostTypeNames] :
          redHostType = WithDecoys(types, "Server")
    /\ \E weak \in RedHosts, missing \in {{}, {"impact"}, {"lateral-movement"}} :
          redValid = [h \in RedNames |->
                         IF h = weak THEN all_kcps \ missing ELSE all_kcps]
    /\ redCurrent \in RedHosts
    /\ redHosts = AgentHistoryHosts(redCurrent)
    /\ redSubnets = AgentHistorySubnets(redCurrent)
    /\ redUnimpacted = {}
    /\ redUnknowns = {}
    /\ redTurn = NoTurn
    /\ redLog = [h \in RedNames |-> << >>]
    /\ redQuarantine = {}
    /\ redEntry = redCurrent
    /\ redEntryTurns = << >>
    /\ redDecoySubnet = [d \in RedDecoys |-> "-"]
    /\ redTracked = RedHosts
    /\ IdleOthers("Red")

\* ARTAgent.act: handle_network_change, select_next_target, run_action and
\* the updates of the history; a target of None makes run_action raise
\* AttributeError, after handle_network_change has taken effect
RED_act ==
    /\ \E hosts0 \in {handle_network_change_hosts},
          unknowns0 \in {redUnknowns \cup red_new_known} :
       \E target \in select_next_target(hosts0, unknowns0),
          has_commands \in BOOLEAN :
          IF target = "None"
          THEN /\ ~has_commands
               /\ redTurn' = [NoTurn EXCEPT !.op = "act", !.target = "None",
                                            !.action = "AttributeError",
                                            !.raised = TRUE]
               /\ redHosts' = hosts0
               /\ redUnknowns' = unknowns0
               /\ UNCHANGED <<redSubnets, redCurrent, redUnimpacted, redLog,
                              redEntryTurns>>
          ELSE LET host_info == hosts0[target]
                   on_target == redCurrent = target
                   action == run_action(host_info, on_target)
                   raised == attack_raises(action, target, has_commands)
                   success == ~raised /\ attack_success(action, target)
                   covered == connected_hosts(SubnetOfHost(target))
                   swept == SweepHosts(hosts0, target)
                   type == known_type(redHostType[target])
                   h1 == CASE action = "pingsweep" -> swept
                           [] action = "portscan" ->
                                 [hosts0 EXCEPT ![target].ports_scanned = TRUE]
                           [] action = "lateral-movement" -> hosts0
                           [] OTHER ->
                                 [hosts0 EXCEPT
                                     ![target] = update_killchain_step(@)]
                   h2 == IF action = "discovery"
                         THEN [h1 EXCEPT ![target].type = type]
                         ELSE h1
                   h3 == IF action = "impact"
                         THEN [h2 EXCEPT ![target].impacted = TRUE]
                         ELSE h2
                   newly == {h \in RedNames : swept[h].known /\ ~hosts0[h].known}
                   u1 == IF action = "pingsweep" THEN unknowns0 \cup newly
                         ELSE IF action = "discovery" /\ type # "Unknown"
                         THEN unknowns0 \ {target}
                         ELSE unknowns0
                   s1 == IF action = "discovery" /\ type = "Server"
                         THEN redUnimpacted \cup {target}
                         ELSE redUnimpacted
                   s2 == IF action = "impact" /\ h3[target].type = "Server"
                         THEN s1 \ {target}
                         ELSE s1
               IN /\ host_info.last_step < MaxLastStep
                  /\ redTurn' = [op |-> "act", target |-> target,
                                 action |-> action, success |-> success,
                                 raised |-> raised,
                                 ping_sweeped |-> host_info.ping_sweeped,
                                 ports_scanned |-> host_info.ports_scanned,
                                 on_target |-> on_target,
                                 next_step |-> get_next_step(host_info)]
                  /\ redHosts' = IF success THEN h3 ELSE hosts0
                  /\ redUnknowns' = IF success THEN u1 ELSE unknowns0
                  /\ redUnimpacted' = IF success THEN s2 ELSE redUnimpacted
                  /\ redCurrent' = IF success /\ action = "lateral-movement"
                                   THEN target ELSE redCurrent
                  /\ redSubnets' =
                        IF action = "pingsweep" /\ success
                           /\ redSubnets[SubnetOfHost(target)] = "absent"
                        THEN [redSubnets EXCEPT ![SubnetOfHost(target)] = "scanned"]
                        ELSE redSubnets
                  /\ redEntryTurns' =
                        IF target = redEntry
                           /\ Len(redEntryTurns) < Len(killchain) + 2
                           /\ \A j \in 1..Len(redEntryTurns) :
                                 redEntryTurns[j].success
                        THEN IF success
                             THEN Append(redEntryTurns,
                                         [action |-> action, success |-> TRUE,
                                          last_step |-> redHosts'[target].last_step,
                                          impacted |-> redHosts'[target].impacted])
                             ELSE << NoEntryTurn >>
                        ELSE redEntryTurns
                  /\ redLog' =
                        [h \in RedNames |->
                            IF action = "pingsweep" /\ success /\ h \in covered
                            THEN Append(redLog[h], "pingsweep")
                            ELSE IF h = target /\ action = "portscan" /\ success
                            THEN Append(redLog[h], "portscan")
                            ELSE IF h = target /\ action \notin no_update /\ success
                            THEN Append(redLog[h], action)
                            ELSE IF h = target /\ action \notin no_update
                                    /\ \A i \in 1..Len(redLog[h]) :
                                          redLog[h][i] \in {"pingsweep", "portscan"}
                            THEN Append(redLog[h], "attempt")
                            ELSE redLog[h]]
    /\ redTracked' = redTracked \cup red_new_hosts
    /\ UNCHANGED <<redStrategy, redHostType, redValid, redQuarantine, redEntry,
                   redDecoySubnet>>
    /\ Others("Red")

\* the defender's QuarantineHost(host): isolate_host removes the edge
\* between the host and its subnet; the attacker's state is not touched
RED_QuarantineHost ==
    /\ Cardinality(redQuarantine) < MaxQuarantined
    /\ \E host \in RedHosts \ redQuarantine :
          redQuarantine' = redQuarantine \cup {host}
    /\ redTurn' = [NoTurn EXCEPT !.op = "QuarantineHost"]
    /\ UNCHANGED <<redStrategy, redHostType, redValid, redHosts, redSubnets,
                   redCurrent, redUnimpacted, redUnknowns, redLog, redEntry,
                   redEntryTurns, redDecoySubnet, redTracked>>
    /\ Others("Red")

\* the defender's RemoveQuarantineHost(host)
RED_RemoveQuarantineHost ==
    /\ \E host \in redQuarantine :
          redQuarantine' = redQuarantine \ {host}
    /\ redTurn' = [NoTurn EXCEPT !.op = "RemoveQuarantineHost"]
    /\ UNCHANGED <<redStrategy, redHostType, redValid, redHosts, redSubnets,
                   redCurrent, redUnimpacted, redUnknowns, redLog, redEntry,
                   redEntryTurns, redDecoySubnet, redTracked>>
    /\ Others("Red")

\* the reset of an episode: the network is reconnected, the quarantine list
\* emptied and ARTAgent.reset(entry_host, network) called with a randomly
\* drawn entry host
RED_reset ==
    /\ \E entry_host \in RedHosts :
          /\ redCurrent' = entry_host
          /\ redEntry' = entry_host
          /\ redHosts' = AgentHistoryHosts(entry_host)
          /\ redSubnets' = AgentHistorySubnets(entry_host)
    /\ redUnimpacted' = {}
    /\ redUnknowns' = {}
    /\ redTurn' = [NoTurn EXCEPT !.op = "reset"]
    /\ redLog' = [h \in RedNames |-> << >>]
    /\ redQuarantine' = {}
    /\ redEntryTurns' = << >>
    /\ redDecoySubnet' = [d \in RedDecoys |-> "-"]
    /\ UNCHANGED <<redStrategy, redHostType, redValid, redTracked>>
    /\ Others("Red")

NextRed ==
    \/ RED_act
    \/ RED_reset

SpecRed == InitRed /\ [][NextRed]_vars

\* the attacker's turns interleaved with the defender's quarantine actions,
\* on hosts that have a valid technique for every phase
InitRedBlue ==
    /\ redStrategy \in {"ServerDowntime", "DFSImpact"}
    /\ \E types \in [RedHosts -> {"Server", "Workstation"}] :
          redHostType = WithDecoys(types, "Server")
    /\ redValid = [h \in RedNames |-> all_kcps]
    /\ redCurrent \in RedHosts
    /\ redHosts = AgentHistoryHosts(redCurrent)
    /\ redSubnets = AgentHistorySubnets(redCurrent)
    /\ redUnimpacted = {}
    /\ redUnknowns = {}
    /\ redTurn = NoTurn
    /\ redLog = [h \in RedNames |-> << >>]
    /\ redQuarantine = {}
    /\ redEntry = redCurrent
    /\ redEntryTurns = << >>
    /\ redDecoySubnet = [d \in RedDecoys |-> "-"]
    /\ redTracked = RedHosts
    /\ IdleOthers("Red")

NextRedBlue ==
    \/ RED_act
    \/ RED_QuarantineHost
    \/ RED_RemoveQuarantineHost
    \/ RED_reset

SpecRedBlue == InitRedBlue /\ [][NextRedBlue]_vars

\* the defender's DeployDecoyHost(subnet): create_decoy_host adds a host
\* with a fresh name to the subnet; the attacker's state is not touched
RED_DeployDecoyHost ==
    /\ \E d \in RedDecoys \ redTracked, subnet \in RedSubnetsAll :
          /\ redDecoySubnet[d] = "-"
          /\ redDecoySubnet' = [redDecoySubnet EXCEPT ![d] = subnet]
    /\ redTurn' = [NoTurn EXCEPT !.op = "DeployDecoyHost"]
    /\ UNCHANGED <<redStrategy, redHostType, redValid, redHosts, redSubnets,
                   redCurrent, redUnimpacted, redUnknowns, redLog, redEntry,
                   redEntryTurns, redQuarantine, redTracked>>
    /\ Others("Red")

\* the attacker's turns interleaved with the deployment of a decoy host of
\* either type, on user hosts of one type that have a valid technique for
\* every phase
InitRedDecoy ==
    /\ redStrategy \in {"ServerDowntime", "DFSImpact"}
    /\ \E type \in {"Server", "Workstation"},
          decoy_type \in {"Server", "Workstation"} :
          redHostType = WithDecoys([h \in RedHosts |-> type], decoy_type)
    /\ redValid = [h \in RedNames |-> all_kcps]
    /\ redCurrent \in RedHosts
    /\ redHosts = AgentHistoryHosts(redCurrent)
    /\ redSubnets = AgentHistorySubnets(redCurrent)
    /\ redUnimpacted = {}
    /\ redUnknowns = {}
    /\ redTurn = NoTurn
    /\ redLog = [h \in RedNames |-> << >>]
    /\ redQuarantine = {}
    /\ redEntry = redCurrent
    /\ redEntryTurns = << >>
    /\ redDecoySubnet = [d \in RedDecoys |-> "-"]
    /\ redTracked = RedHosts
    /\ IdleOthers("Red")

NextRedDecoy ==
    \/ RED_act
    \/ RED_DeployDecoyHost
    \/ RED_reset

SpecRedDecoy == InitRedDecoy /\ [][NextRedDecoy]_vars

(***************************************************************************)
(* DetectorHandler: the detector graph built from a configuration and the  *)
(* evaluation of alerts over its edges.  An Alert is the tuple of its      *)
(* source host, destination hosts, services and techniques, and two alerts *)
(* are the same alert when these are equal.                                *)
(***************************************************************************)

\* the most alerts one call of obs is given
MaxAlerts == 2

\* the most calls of obs between two resets of the buffers
MaxObsCalls == 2

DetHosts == {"h1", "d1", "d2"}
DetDecoys == {"d1", "d2"}

Alert(src_host, dst_hosts, services, techniques) ==
    [src_host |-> src_host, dst_hosts |-> dst_hosts, services |-> services,
     techniques |-> techniques]

DetAlerts == {Alert("h1", {"h1"}, {"ssh"}, {"T1046"}),
              Alert("h1", {"d1"}, {"ssh"}, {"T1046"}),
              Alert("h1", {"h1", "d1", "d2"}, {"ssh"}, {"T1046"}),
              Alert("h1", {"d1"}, {"ssh"}, {})}

AlertInputs == UNION {[1..n -> DetAlerts] : n \in 0..MaxAlerts}

DetNodes == {"start", "a", "b", "end"}
DetectorClasses == {"PerfectDetector", "DecoyDetector"}

\* adjacency lists of a configuration: every entry is a node followed by
\* its children
AdjacencyLists == {
    << <<"start", "end">> >>,
    << <<"start", "a">>, <<"a", "end">> >>,
    << <<"a", "end">>, <<"start", "a">> >>,
    << <<"start", "a", "end">>, <<"a", "end">> >>,
    << <<"start", "a">>, <<"a", "b">>, <<"b", "end">> >>,
    << <<"b", "end">>, <<"a", "b">>, <<"start", "a">> >>,
    << <<"start", "b">>, <<"a", "end">>, <<"b", "a">> >>,
    << <<"start", "a", "b">>, <<"a", "end">>, <<"b", "end">> >>,
    << <<"start", "a", "b">>, <<"a", "b", "end">>, <<"b", "end">> >>,
    << <<"start", "a", "b">>, <<"b", "a", "end">>, <<"a", "end">> >>,
    << <<"a", "b", "end">>, <<"b", "end">>, <<"start", "a">> >> }

SeqRange(q) == {q[i] : i \in 1..Len(q)}

\* nx.DiGraph: the nodes in the order they were added and, for every node,
\* its successors in the order the edges were added
EmptyGraph == [nodes |-> << >>, succ |-> [n \in DetNodes |-> << >>]]

DG_add_node(g, n) ==
    IF n \in SeqRange(g.nodes) THEN g ELSE [g EXCEPT !.nodes = Append(@, n)]

DG_add_edge(g, u, v) ==
    LET g2 == DG_add_node(DG_add_node(g, u), v)
    IN IF v \in SeqRange(g2.succ[u]) THEN g2
       ELSE [g2 EXCEPT !.succ[u] = Append(@, v)]

RECURSIVE AddChildren(_, _, _)
AddChildren(g, entry, j) ==
    IF j > Len(entry) THEN g
    ELSE AddChildren(DG_add_edge(g, entry[1], entry[j]), entry, j + 1)

\* _from_config: the graph of an adjacency list
RECURSIVE FromEntries(_, _, _)
FromEntries(g, adjacency_list, i) ==
    IF i > Len(adjacency_list) THEN g
    ELSE FromEntries(AddChildren(DG_add_node(g, adjacency_list[i][1]),
                                 adjacency_list[i], 2),
                     adjacency_list, i + 1)

_from_config(adjacency_list) == FromEntries(EmptyGraph, adjacency_list, 1)

EdgeSet(g) == {<<u, v>> \in DetNodes \X DetNodes : v \in SeqRange(g.succ[u])}

in_degree(g, n) == Cardinality({e \in EdgeSet(g) : e[2] = n})
out_degree(g, n) == Cardinality({e \in EdgeSet(g) : e[1] = n})

_validate_graph_structure(g) ==
    IF \E n \in SeqRange(g.nodes) :
          \/ n = "start" /\ in_degree(g, n) > 0
          \/ n # "start" /\ in_degree(g, n) = 0
          \/ n = "end" /\ out_degree(g, n) > 0
          \/ n # "end" /\ out_degree(g, n) = 0
    THEN "ValueError"
    ELSE "None"

\* DG.edges: the out-edges of every node, node by node in insertion order
RECURSIVE EdgesFrom(_, _)
EdgesFrom(g, i) ==
    IF i > Len(g.nodes) THEN << >>
    ELSE [k \in 1..Len(g.succ[g.nodes[i]]) |-> <<g.nodes[i], g.succ[g.nodes[i]][k]>>]
         \o EdgesFrom(g, i + 1)

DGEdges(g) == EdgesFrom(g, 1)

\* Detector.obs of the reference detectors
\* the alerts DecoyDetector.obs makes of one alert: one for every decoy among
\* the hosts, the destinations left to visit
RECURSIVE DecoyAlerts(_, _)
DecoyAlerts(perfect_alert, hosts) ==
    IF hosts = {} THEN << >>
    ELSE LET host == CHOOSE h \in hosts : TRUE
         IN (IF host \in DetDecoys
             THEN << Alert(perfect_alert.src_host, {host},
                           perfect_alert.services, {}) >>
             ELSE << >>)
            \o DecoyAlerts(perfect_alert, hosts \ {host})

RECURSIVE DecoyDetector_obs(_)

\* a decoy detector that lets every alert through
DecoyDetector_obs_all(perfect_alerts) == perfect_alerts

DecoyDetector_obs(perfect_alerts) ==
    IF perfect_alerts = << >> THEN << >>
    ELSE DecoyAlerts(Head(perfect_alerts), Head(perfect_alerts).dst_hosts)
         \o DecoyDetector_obs(Tail(perfect_alerts))

PerfectDetector_obs(perfect_alerts) == perfect_alerts

detector_obs(class, input_alerts) ==
    IF class = "DecoyDetector" THEN DecoyDetector_obs(input_alerts)
    ELSE PerfectDetector_obs(input_alerts)

RECURSIVE append_unique(_, _)

\* the loop of obs that appends a result to the next node's input and
\* keeps every alert
append_all(next_node_input, result) == next_node_input \o result

\* the loop of obs that appends to the next node's input the alerts of a
\* result it does not hold yet
append_unique(next_node_input, result) ==
    IF result = << >> THEN next_node_input
    ELSE append_unique(IF Head(result) \in SeqRange(next_node_input)
                       THEN next_node_input
                       ELSE Append(next_node_input, Head(result)),
                       Tail(result))

\* DetectorHandler.obs: the buffers after the edges i.. were evaluated
RECURSIVE ObsEdges(_, _, _, _, _, _)
ObsEdges(g, detectors, edges, i, output, perfect_alerts) ==
    IF i > Len(edges) THEN output
    ELSE LET edge == edges[i]
             result == IF edge[1] = "start" THEN perfect_alerts
                       ELSE detector_obs(detectors[edge[1]], output[edge[1]])
         IN ObsEdges(g, detectors, edges, i + 1,
                     [output EXCEPT ![edge[2]] = append_unique(@, result)],
                     perfect_alerts)

obs(g, detectors, output, perfect_alerts) ==
    ObsEdges(g, detectors, DGEdges(g), 1, output, perfect_alerts)

NoBuffers == [n \in DetNodes |-> << >>]

InitDet ==
    /\ detConfig \in {c \in AdjacencyLists :
                         _validate_graph_structure(_from_config(c)) = "None"}
    /\ detInitInfo \in [{"a", "b"} -> DetectorClasses]
    /\ detDG = _from_config(detConfig)
    /\ detOutput = NoBuffers
    /\ detCall = NoDetCall
    /\ IdleOthers("Det")

\* DetectorHandler.obs(perfect_alerts)
DET_obs ==
    /\ detCall.calls < MaxObsCalls
    /\ \E perfect_alerts \in AlertInputs :
          LET out == obs(detDG, detInitInfo, detOutput, perfect_alerts)
          IN /\ detOutput' = out
             /\ detCall' = [op |-> "obs", alerts |-> perfect_alerts,
                            fresh |-> detOutput = NoBuffers,
                            res |-> out["end"], calls |-> detCall.calls + 1]
    /\ UNCHANGED <<detConfig, detInitInfo, detDG>>
    /\ Others("Det")

\* DetectorHandler.reset()
DET_reset ==
    /\ detOutput' = NoBuffers
    /\ detCall' = [NoDetCall EXCEPT !.op = "reset"]
    /\ UNCHANGED <<detConfig, detInitInfo, detDG>>
    /\ Others("Det")

NextDet ==
    \/ DET_obs
    \/ DET_reset

SpecDet == InitDet /\ [][NextDet]_vars

(***************************************************************************)
(* DynamicCyberwheel: the environment's step and reset.  A step runs the   *)
(* defender's action, then the attacker's turn, then the detector, the     *)
(* observation and the reward.  The network is one subnet with the hosts   *)
(* h1 and h2 and the decoys the defender deploys on it; of the attacker's  *)
(* turn the model keeps handle_network_change, the scan of the subnet and  *)
(* the alert of the action, whatever target and action were chosen.  The   *)
(* reward calculator is not part of the sources: its recurring map follows *)
(* the specification.                                                      *)
(***************************************************************************)

\* the most calls to step in an episode; max_steps is one or two less
MaxEnvSteps == 3

\* the most decoys the defender deploys over all episodes
MaxEnvDeploys == 2

\* the hosts of the network at construction, in the order of get_hosts
EnvHosts == <<"h1", "h2">>

\* generate_id: the ids handed out, never one twice
EnvIds == <<"d1", "d2", "d3">>

\* host_to_index_mapping(network)
host_to_index_mapping == [h \in SeqRange(EnvHosts) |->
                             (CHOOSE i \in 1..Len(EnvHosts) : EnvHosts[i] = h) - 1]

\* the alert of an attacker's action: from the current host, a host or a
\* decoy, or without a source, against a host or a decoy
EnvAlerts == {Alert(src, {dst}, {"ssh"}, {"T1046"}) :
                 src \in {"h1", "h2", "d2", "None"}, dst \in {"h2", "d1"}}

\* the detector configurations of the environment
EnvConfigs == {<< <<"start", "end">> >>,
               << <<"start", "a">>, <<"a", "end">> >>}

NoBlueResult == [name |-> "-", id |-> "", success |-> FALSE, recurring |-> 0]

\* Network.get_host_names() with the decoys connected to the subnet
get_host_names(decoys) == SeqRange(EnvHosts) \cup SeqRange(decoys)

\* HistoryObservation.reset_obs_vector and __init__: np.zeros(shape)
zeros(shape) == [i \in 1..shape |-> 0]

\* the indices create_obs_vector sets: those of the alerts' source hosts
\* that the mapping holds
AlertedIndices(mapping, alerts) ==
    {mapping[alerts[k].src_host] :
        k \in {j \in 1..Len(alerts) : /\ alerts[j].src_host # "None"
                                      /\ alerts[j].src_host \in DOMAIN mapping}}

\* create_obs_vector without the history half
obs_vector_current_only(obs_vec, mapping, alerts) ==
    LET barrier == Len(obs_vec) \div 2
    IN [i \in 1..Len(obs_vec) |->
           IF i <= barrier
           THEN (IF (i - 1) \in AlertedIndices(mapping, alerts) THEN 1 ELSE 0)
           ELSE obs_vec[i]]

\* HistoryObservation.create_obs_vector; index i of the code is i + 1 here
obs_vector(obs_vec, mapping, alerts) ==
    LET barrier == Len(obs_vec) \div 2
        index == AlertedIndices(mapping, alerts)
    IN [i \in 1..Len(obs_vec) |->
           IF (i - 1) \in index \/ (i - 1 - barrier) \in index THEN 1
           ELSE IF i <= barrier THEN 0
           ELSE obs_vec[i]]

\* a reset of the detector that keeps the buffers
DetectorHandler_reset_keep(output) == output

\* DetectorHandler.reset
DetectorHandler_reset(output) == [n \in DOMAIN output |-> << >>]

\* the reward calculator's handle_blue_action_output: the ids of the active
\* recurring rewards after a defender result
handle_blue_action_output(map, id, recurring) ==
    IF recurring = 1 THEN map \cup {id}
    ELSE IF recurring = -1 THEN map \ {id}
    ELSE map

\* the defender's actions of the environment and their results:
\* DeployDecoyHost.execute, RemoveDecoyHost.execute and Nothing.execute
BlueActionNames == {"DeployDecoyHost", "RemoveDecoyHost", "Nothing"}

\* the decoys connected to the subnet after the action
blue_decoys(name, decoys, next) ==
    IF name = "DeployDecoyHost" THEN Append(decoys, EnvIds[next + 1])
    ELSE IF name = "RemoveDecoyHost" /\ decoys # << >> THEN Tail(decoys)
    ELSE decoys

\* results in which RemoveDecoyHost never names the decoy it removed
blue_result_no_id(name, decoys, next) ==
    [name |-> name,
     id |-> IF name = "DeployDecoyHost" THEN EnvIds[next + 1] ELSE "",
     success |-> TRUE,
     recurring |-> IF name = "DeployDecoyHost" THEN 1
                   ELSE IF name = "RemoveDecoyHost" THEN -1 ELSE 0]

\* BlueAgentResult of the action; the id of Nothing is a fresh uuid
blue_result(name, decoys, next) ==
    IF name = "DeployDecoyHost"
    THEN [name |-> name, id |-> EnvIds[next + 1], success |-> TRUE,
          recurring |-> 1]
    ELSE IF name = "RemoveDecoyHost"
    THEN [name |-> name, id |-> IF decoys = << >> THEN "" ELSE Head(decoys),
          success |-> decoys # << >>, recurring |-> -1]
    ELSE [name |-> name, id |-> "uuid", success |-> TRUE, recurring |-> 0]

\* ARTAgent.handle_network_change: the hosts added to the knowledge store
\* are the new ones on a scanned subnet
\* an attacker that finds no host new
new_hosts_none(decoys, tracked) == {}

new_hosts(decoys, tracked) == get_host_names(decoys) \ tracked

handle_network_change_known(known, scanned, decoys, tracked) ==
    IF scanned THEN known \cup new_hosts(decoys, tracked) ELSE known

NoEnvStep == [op |-> "init", blue |-> NoBlueResult, new_hosts |-> {},
              alert |-> << >>, alerts |-> << >>, recurring |-> {},
              trace |-> << >>, done |-> FALSE, truncated |-> FALSE]

\* a done flag raised one call early
step_done_early(current_step, max_steps) == current_step + 1 >= max_steps

\* step, lines 239-242: the done flag, computed before current_step grows
step_done(current_step, max_steps) == current_step >= max_steps

InitEnv ==
    /\ envPc = "idle"
    /\ envConfig \in EnvConfigs
    /\ envDetectors \in [{"a", "b"} -> DetectorClasses]
    /\ envDetectors["b"] = "PerfectDetector"
    /\ envDetOutput = NoBuffers
    /\ envDecoys = << >>
    /\ envNext = 0
    /\ envTracked = SeqRange(EnvHosts)
    /\ envServices = SeqRange(EnvHosts)
    /\ envKnown \in {{h} : h \in SeqRange(EnvHosts)}
    /\ envScanned = FALSE
    /\ envObs = zeros(2 * Len(EnvHosts))
    /\ envEver = {}
    /\ envRecurring = {}
    /\ envCurrentStep = 0
    /\ envStep = NoEnvStep
    /\ envMaxSteps \in (MaxEnvSteps - 2)..(MaxEnvSteps - 1)
    /\ envReturned = 0
    /\ IdleOthers("Env")

\* step, lines 195-201: the defender's action and its recurring reward
ENV_step_blue ==
    /\ envPc = "idle"
    /\ envCurrentStep < MaxEnvSteps
    /\ \E name \in BlueActionNames :
          /\ name = "DeployDecoyHost" => envNext < MaxEnvDeploys
          /\ LET result == blue_result(name, envDecoys, envNext)
             IN /\ envDecoys' = blue_decoys(name, envDecoys, envNext)
                /\ envNext' = IF name = "DeployDecoyHost" THEN envNext + 1
                              ELSE envNext
                /\ envRecurring' = handle_blue_action_output(
                                      envRecurring, result.id, result.recurring)
                /\ envStep' = [NoEnvStep EXCEPT
                                  !.op = "step", !.blue = result,
                                  !.trace = <<"blue_agent.act",
                                              "handle_blue_action_output">>]
    /\ envPc' = "blue"
    /\ UNCHANGED <<envConfig, envDetectors, envDetOutput, envTracked,
                   envServices, envKnown, envScanned, envObs, envEver,
                   envCurrentStep, envMaxSteps, envReturned>>
    /\ Others("Env")

\* step, lines 202-216: the attacker's turn.  act() reconciles the hosts of
\* the network, then selects a target and runs an action, which raises or
\* returns with an alert; a ping sweep that succeeds scans the subnet and
\* adds its connected hosts to the knowledge store
ENV_step_red ==
    /\ envPc = "blue"
    /\ LET new == new_hosts(envDecoys, envTracked)
           known == handle_network_change_known(envKnown, envScanned,
                                                envDecoys, envTracked)
       IN /\ envTracked' = envTracked \cup new
          /\ envServices' = envServices \cup new
          /\ \E raised \in BOOLEAN, sweep \in BOOLEAN, alert \in EnvAlerts :
                /\ raised => ~sweep /\ alert = CHOOSE a \in EnvAlerts : TRUE
                /\ envScanned' = (envScanned \/ sweep)
                /\ envKnown' = IF sweep THEN known \cup get_host_names(envDecoys)
                               ELSE known
                /\ envPc' = IF raised THEN "idle" ELSE "red"
                /\ envStep' = [envStep EXCEPT
                                  !.op = IF raised THEN "raised" ELSE "step",
                                  !.new_hosts = new,
                                  !.alert = IF raised THEN << >> ELSE << alert >>,
                                  !.trace = @ \o (IF raised
                                                  THEN <<"red_agent.act">>
                                                  ELSE <<"red_agent.act",
                                                         "handle_red_action_output">>)]
    /\ UNCHANGED <<envConfig, envDetectors, envDetOutput, envDecoys, envNext,
                   envObs, envEver, envRecurring, envCurrentStep, envMaxSteps,
                   envReturned>>
    /\ Others("Env")

\* step, lines 218-265: the detector's observation, the observation vector,
\* the reward, the step counter and the reset of the detector
ENV_step_observe ==
    /\ envPc = "red"
    /\ LET output == obs(_from_config(envConfig), envDetectors, envDetOutput,
                         envStep.alert)
           alerts == output["end"]
       IN /\ envObs' = obs_vector(envObs, host_to_index_mapping, alerts)
          /\ envEver' = envEver \cup {alerts[k].src_host : k \in 1..Len(alerts)}
          /\ envDetOutput' = DetectorHandler_reset(DetectorHandler_reset(output))
          /\ envStep' = [envStep EXCEPT
                            !.alerts = alerts,
                            !.recurring = envRecurring,
                            !.done = step_done(envCurrentStep, envMaxSteps),
                            !.truncated = FALSE,
                            !.trace = @ \o <<"detector.obs", "create_obs_vector",
                                             "calculate_reward", "detector.reset">>]
    /\ envCurrentStep' = envCurrentStep + 1
    /\ envReturned' = envReturned + 1
    /\ envPc' = "idle"
    /\ UNCHANGED <<envConfig, envDetectors, envDecoys, envNext, envTracked,
                   envServices, envKnown, envScanned, envRecurring, envMaxSteps>>
    /\ Others("Env")

\* reset: the network loses its decoys, the attacker starts from a random
\* user host with a new history, the observation vector and the reward
\* calculator start anew
ENV_reset ==
    /\ envPc = "idle"
    /\ envCurrentStep' = 0
    /\ envDecoys' = << >>
    /\ envKnown' \in {{h} : h \in SeqRange(EnvHosts)}
    /\ envScanned' = FALSE
    /\ envObs' = zeros(2 * Len(EnvHosts))
    /\ envEver' = {}
    /\ envRecurring' = {}
    /\ envStep' = [NoEnvStep EXCEPT !.op = "reset"]
    /\ envReturned' = 0
    /\ UNCHANGED <<envPc, envConfig, envDetectors, envDetOutput, envNext,
                   envTracked, envServices, envMaxSteps>>
    /\ Others("Env")

NextEnv ==
    \/ ENV_step_blue
    \/ ENV_step_red
    \/ ENV_step_observe
    \/ ENV_reset

SpecEnv == InitEnv /\ [][NextEnv]_vars

(***************************************************************************)
(* BlueInterface: perform_action maps an action number to a deceptive-node *)
(* placement, a global action or a standard action on a node.  The actions *)
(* themselves belong to BlueActionSet; of their effects the model keeps    *)
(* the one perform_action depends on, the placement of a deceptive node,   *)
(* which may or may not add a node to current_graph.                       *)
(***************************************************************************)

\* the largest action number the defender tries
MaxBlueAction == 21

\* the standard actions a game mode may enable, in the order of __init__
ActionDicts ==
    { << >>, <<"isolate_node">>, <<"isolate_node", "reconnect_node">>,
      <<"reduce_node_vulnerability", "restore_node", "make_safe_node">> }

\* the global actions a game mode may enable
GlobalActionDicts ==
    { << >>, <<"scan_all_nodes">>, <<"do_nothing">>,
      <<"scan_all_nodes", "do_nothing">> }

\* base_graph.number_of_edges() of the topologies, or 0 when deceptive
\* nodes are not in use
DeceptiveActions == {0} \cup {Len(t) : t \in Topologies}

\* the node names in their sorting order
NodeOrder == <<"d0", "d1", "d2", "d3", "n1", "n2", "n3">>

RECURSIVE SortedFrom(_, _)
SortedFrom(nodes, i) ==
    IF i > Len(NodeOrder) THEN << >>
    ELSE (IF NodeOrder[i] \in nodes THEN << NodeOrder[i] >> ELSE << >>)
         \o SortedFrom(nodes, i + 1)

\* sorted(nodes)
sorted(nodes) == SortedFrom(nodes, 1)

get_number_unused_deceptive_nodes(deceptive) == MaxDeceptive - deceptive

get_total_num_nodes(nodes, deceptive) ==
    Cardinality(nodes) + get_number_unused_deceptive_nodes(deceptive)

get_number_of_actions(cfg, nodes, deceptive) ==
    Len(cfg.action_dict) * get_total_num_nodes(nodes, deceptive)
    + Len(cfg.global_action_dict) + cfg.deceptive_actions

BlueCall(kind, name, arg) == [kind |-> kind, name |-> name, arg |-> arg]

\* a perform_action that takes the node number modulo the number of nodes
perform_action_wrap(cfg, nodes, deceptive, action) ==
    IF action >= get_number_of_actions(cfg, nodes, deceptive)
    THEN BlueCall("do_nothing", "do_nothing", "-")
    ELSE IF action < cfg.deceptive_actions
    THEN BlueCall("deceptive", "add_deceptive_node", action)
    ELSE LET global == action - cfg.deceptive_actions
             standard == global - Len(cfg.global_action_dict)
         IN IF global < Len(cfg.global_action_dict)
            THEN BlueCall("global", cfg.global_action_dict[global + 1], "-")
            ELSE BlueCall("standard",
                          cfg.action_dict[(standard % Len(cfg.action_dict)) + 1],
                          sorted(nodes)[((standard \div Len(cfg.action_dict))
                                           % Cardinality(nodes)) + 1])

\* perform_action: the branch taken, the callable run and its argument; a
\* division by number_of_actions = 0 raises ZeroDivisionError
perform_action(cfg, nodes, deceptive, action) ==
    IF action >= get_number_of_actions(cfg, nodes, deceptive)
    THEN BlueCall("do_nothing", "do_nothing", "-")
    ELSE IF action < cfg.deceptive_actions
    THEN BlueCall("deceptive", "add_deceptive_node", action)
    ELSE LET global == action - cfg.deceptive_actions
             standard == global - Len(cfg.global_action_dict)
             number_of_actions == Len(cfg.action_dict)
         IN IF global < Len(cfg.global_action_dict)
            THEN BlueCall("global", cfg.global_action_dict[global + 1], "-")
            ELSE IF number_of_actions = 0
            THEN BlueCall("raise", "ZeroDivisionError", "-")
            ELSE LET action_node_number == standard \div number_of_actions
                     action_taken == standard % number_of_actions
                 IN IF action_node_number >= Cardinality(nodes)
                    THEN BlueCall("do_nothing", "do_nothing", "-")
                    ELSE BlueCall("standard", cfg.action_dict[action_taken + 1],
                                  sorted(nodes)[action_node_number + 1])

NoBlueCall == [action |-> -1, nodes |-> {}, deceptive |-> 0,
               ran |-> BlueCall("-", "-", "-")]

InitBI ==
    /\ biConfig \in [action_dict : ActionDicts,
                      global_action_dict : GlobalActionDicts,
                      deceptive_actions : DeceptiveActions]
    /\ biNodes = NINodes
    /\ biDeceptive = 0
    /\ biCall = NoBlueCall
    /\ IdleOthers("BI")

\* perform_action(action); a placement that succeeds adds the next
\* deceptive node to current_graph while fewer than the maximum are placed
BI_perform_action ==
    /\ \E action \in 0..MaxBlueAction, placed \in BOOLEAN :
          LET ran == perform_action(biConfig, biNodes, biDeceptive, action)
              adds == /\ ran.kind = "deceptive"
                      /\ placed
                      /\ biDeceptive < MaxDeceptive
          IN /\ ran.kind # "deceptive" => ~placed
             /\ biCall' = [action |-> action, nodes |-> biNodes,
                           deceptive |-> biDeceptive, ran |-> ran]
             /\ biNodes' = IF adds
                           THEN biNodes \cup
                                   {available_deceptive_nodes[biDeceptive + 1]}
                           ELSE biNodes
             /\ biDeceptive' = IF adds THEN biDeceptive + 1 ELSE biDeceptive
    /\ UNCHANGED biConfig
    /\ Others("BI")

\* NetworkInterface.reset: current_graph is the network again
BI_reset ==
    /\ biNodes' = NINodes
    /\ biDeceptive' = 0
    /\ biCall' = NoBlueCall
    /\ UNCHANGED biConfig
    /\ Others("BI")

NextBI ==
    \/ BI_perform_action
    \/ BI_reset

SpecBI == InitBI /\ [][NextBI]_vars

(***************************************************************************)
(* RedInterface: the attacker's turn of the legacy environment.  A turn    *)
(* runs natural_spread when the game mode enables it, then zero_day_attack *)
(* when zero days are in use, then an action of action_dict when no zero   *)
(* day was used, then increment_day.  The network is the chain n1 - n2 -   *)
(* n3 entered at n1, and the attacker attacks from any compromised node    *)
(* with targets of equal weight.  Of the actions of action_dict the model  *)
(* keeps basic_attack and do_nothing.                                      *)
(***************************************************************************)

\* the most zero days the attacker holds
MaxZeroDays == 3
\* the largest zero_day.start_amount
MaxStartAmount == 1
\* the largest zero_day.days_required
MaxDaysRequired == 2

RIEdges == {{"n1", "n2"}, {"n2", "n3"}}

RIEntryNodes == {"n1"}

\* the safe nodes next to a compromised node, and the safe entry nodes
possible_to_attack(compromised) ==
    {n \in NINodes \ compromised :
        \/ \E c \in compromised : {c, n} \in RIEdges
        \/ n \in RIEntryNodes}

\* the targets choose_target_node may return: False when there is none
choose_target_node(compromised) ==
    IF possible_to_attack(compromised) = {} THEN {"False"}
    ELSE possible_to_attack(compromised)

\* a zero-day attack that spends no zero day
zero_day_attack_free(amount, target) == amount

\* zero_day_amount after zero_day_attack: a zero day is spent when one is
\* held and a target was chosen
zero_day_attack(amount, target) ==
    IF amount >= 1 /\ target # "False" THEN amount - 1 ELSE amount

\* a day counter that stays at days_required once it got there
increment_day_stay(day, required) ==
    IF day >= required THEN required ELSE day + 1

\* zero_day_amount after increment_day
increment_day_amount(amount, day, required) ==
    IF day = required THEN amount + 1 ELSE amount

\* zero_day_current_day after increment_day
increment_day(day, required) ==
    IF day = required THEN 0 ELSE day + 1

NoRedCall == [op |-> "-", before |-> 0, attacked |-> FALSE, after |-> 0,
              granted |-> FALSE]

\* RedInterface.__init__ and RedActionSet.reset, on a network with no
\* compromised node
InitRI ==
    /\ riConfig \in [use : BOOLEAN, start_amount : 0..MaxStartAmount,
                      days_required : 0..MaxDaysRequired, capable : BOOLEAN]
    /\ riAmount = riConfig.start_amount
    /\ riDay = 0
    /\ riCompromised = {}
    /\ riSince = 0
    /\ riCall = NoRedCall
    /\ IdleOthers("RI")

\* RedInterface.perform_action
RI_perform_action ==
    /\ (riConfig.use /\ riDay = riConfig.days_required) => riAmount < MaxZeroDays
    /\ \E spread \in (IF riConfig.capable
                       THEN SUBSET (NINodes \ riCompromised) ELSE {{}}) :
       \E target \in choose_target_node(riCompromised \cup spread),
          action \in {"basic_attack", "do_nothing"}, attack_status \in BOOLEAN :
          LET c1 == riCompromised \cup spread
              zd == riConfig.use /\ riAmount >= 1 /\ target # "False"
              amount1 == IF riConfig.use THEN zero_day_attack(riAmount, target)
                         ELSE riAmount
              hit == \/ zd
                     \/ /\ action = "basic_attack"
                        /\ target # "False"
                        /\ attack_status
              granted == riConfig.use /\ riDay = riConfig.days_required
          IN /\ riCompromised' = IF hit THEN c1 \cup {target} ELSE c1
             /\ riAmount' = IF riConfig.use
                             THEN increment_day_amount(amount1, riDay,
                                                       riConfig.days_required)
                             ELSE amount1
             /\ riDay' = IF riConfig.use
                          THEN increment_day(riDay, riConfig.days_required)
                          ELSE riDay
             /\ riSince' = IF granted THEN 0
                            ELSE IF riSince <= MaxDaysRequired THEN riSince + 1
                            ELSE riSince
             /\ riCall' = [op |-> "perform_action", before |-> riAmount,
                           attacked |-> zd, after |-> amount1,
                           granted |-> granted]
    /\ UNCHANGED riConfig
    /\ Others("RI")

\* NetworkInterface.make_node_safe, the defender's restoration of a node
RI_make_node_safe ==
    /\ \E node \in riCompromised : riCompromised' = riCompromised \ {node}
    /\ riCall' = [NoRedCall EXCEPT !.op = "make_node_safe"]
    /\ UNCHANGED <<riConfig, riAmount, riDay, riSince>>
    /\ Others("RI")

\* RedActionSet.reset with NetworkInterface.reset
RI_reset ==
    /\ riAmount' = riConfig.start_amount
    /\ riDay' = 0
    /\ riCompromised' = {}
    /\ riSince' = 0
    /\ riCall' = [NoRedCall EXCEPT !.op = "reset"]
    /\ UNCHANGED riConfig
    /\ Others("RI")

NextRI ==
    \/ RI_perform_action
    \/ RI_make_node_safe
    \/ RI_reset

SpecRI == InitRI /\ [][NextRI]_vars

(***************************************************************************)
(* Claims about NetworkInterface                                           *)
(***************************************************************************)

\* C3 (as claimed): for every node n, isolated or not, isolate_node(n)
\* directly followed by reconnect_node(n) leaves current_graph with the edge
\* set it had before isolate_node(n).
C3_RoundTripEveryNode ==
    niRT.phase = "done" => niCurEdges = niRT.edges

\* C3 (amended): for every node n that is not isolated, isolate_node(n)
\* directly followed by reconnect_node(n) leaves current_graph with exactly
\* the edge set it had before isolate_node(n), whatever the isolation of the
\* neighbours and whatever deceptive nodes are placed.
C3_RoundTrip ==
    (niRT.phase = "done" /\ ~niRT.wasIso) => niCurEdges = niRT.edges

\* a completed round trip of a connected node with an isolated base
\* neighbour, while a deceptive node is placed
C3_Witness ==
    /\ niRT.phase = "done"
    /\ ~niRT.wasIso
    /\ \E e \in niRT.edges : niRT.node \in e
    /\ \E m \in Neighbors(niBaseNodes, niBaseEdges, niRT.node) : niIsolated[m]
    /\ niCount > 0

\* C4: reconnect_node(n) on an isolated n clears n's flag and adds exactly
\* the edges n-m to the base neighbours m that are not isolated, so no added
\* edge touches an isolated node; on a node that is not isolated it changes
\* neither the graphs nor the flags.
C4_Reconnect ==
    [][niOp'.op = "reconnect_node" =>
        LET n == niOp'.node
            open == {m \in Neighbors(niBaseNodes, niBaseEdges, n) : ~niIsolated[m]}
        IN /\ niBaseNodes' = niBaseNodes /\ niBaseEdges' = niBaseEdges
           /\ niCurNodes' = niCurNodes
           /\ IF niIsolated[n]
              THEN /\ niIsolated' = [niIsolated EXCEPT ![n] = FALSE]
                   /\ niCurEdges' = niCurEdges \cup {{n, m} : m \in open \ {n}}
                                               \cup {{n} : m \in open \cap {n}}
                   /\ \A e \in niCurEdges' \ niCurEdges :
                         \A x \in e : ~niIsolated'[x]
              ELSE /\ niIsolated' = niIsolated
                   /\ niCurEdges' = niCurEdges]_vars

\* reconnect_node has just reconnected an isolated node that has an isolated
\* base neighbour and a base neighbour that is not isolated
C4_Witness ==
    /\ niOp.op = "reconnect_node"
    /\ niOp.wasIso
    /\ \E m \in Neighbors(niBaseNodes, niBaseEdges, niOp.node) : niIsolated[m]
    /\ \E m \in Neighbors(niCurNodes, niCurEdges, niOp.node) : ~niIsolated[m]

(***************************************************************************)
(* Claims about DiscreteActionSpace                                        *)
(***************************************************************************)

\* C7: select_action raises an error for every integer index outside
\* [0, action_space_size), negative ones included, and for input that is not
\* an integer; it never returns an empty (None) selection.
C7_OutOfRangeRaises ==
    asCall.op = "select_action" =>
        /\ asCall.res.kind # "None"
        /\ (asCall.inp.kind = "int" /\ asCall.inp.n \notin 0..(asSize - 1))
              => asCall.res.kind \in {"TypeError", "ValueError"}
        /\ asCall.inp.kind \in {"float", "badstr", "none"}
              => asCall.res.kind \in {"TypeError", "ValueError"}

\* C8: the ranges of the registered entries start at 0, follow one another
\* without gap or overlap in registration order and end at
\* action_space_size; an entry is 1 wide (standalone), num_hosts wide (host),
\* num_subnets wide (subnet) or as wide as its explicit range; every index
\* in [0, action_space_size) lies in exactly one range and select_action
\* resolves it to that entry and to an offset inside the entry.
C8_RangesPartition ==
    LET n == Len(asCheckers)
        width(ac) == ac.upper_bound - ac.lower_bound
    IN /\ (n = 0 => asSize = 0)
       /\ (n > 0 => asCheckers[1].lower_bound = 0 /\ asCheckers[n].upper_bound = asSize)
       /\ \A k \in 1..(n - 1) :
             asCheckers[k + 1].lower_bound = asCheckers[k].upper_bound
       /\ \A k \in 1..n :
             width(asCheckers[k]) =
                CASE asCheckers[k].type = "standalone" -> 1
                  [] asCheckers[k].type = "host" -> asNumHosts
                  [] asCheckers[k].type = "subnet" -> asNumSubnets
                  [] asCheckers[k].type = "range" -> asCheckers[k].range
                  [] OTHER -> -1
       /\ \A i \in 0..(asSize - 1) :
             /\ Cardinality({k \in 1..n : check_range(asCheckers[k], i)}) = 1
             /\ LET r == select_action(asCheckers, asNumHosts, asNumSubnets,
                                       [kind |-> "int", n |-> i])
                IN /\ r.kind = "ASReturn"
                   /\ check_range(asCheckers[r.entry], i)
                   /\ r.index = i - asCheckers[r.entry].lower_bound
                   /\ r.index \in 0..(width(asCheckers[r.entry]) - 1)
       /\ \A i \in {-1, asSize} :
             {k \in 1..n : check_range(asCheckers[k], i)} = {}

\* three entries are registered, a host entry and a range entry among them,
\* on a network with more hosts than subnets, after a rejected add_action
C8_Witness ==
    /\ Len(asCheckers) = MaxActions
    /\ \E k \in 1..Len(asCheckers) : asCheckers[k].type = "host"
    /\ \E k \in 1..Len(asCheckers) :
          asCheckers[k].type = "range" /\ asCheckers[k].range = MaxRange
    /\ asNumHosts > asNumSubnets
    /\ asSize >= 4

(***************************************************************************)
(* Claims about the firewall evaluation                                    *)
(***************************************************************************)

\* C9: is_traffic_allowed answers allowed whenever the objects it evaluates
\* (the destination and, for a host, its subnet and router) have no firewall
\* rules: an empty rule list never denies.
C9_EmptyAllows ==
    (/\ fwCall.op = "is_traffic_allowed"
     /\ \A i \in 1..Len(EvalChain(fwCall.dest)) :
           fwRules[EvalChain(fwCall.dest)[i]] = << >>
     /\ (Lower(fwCall.proto) = "icmp" \/ _is_valid_port_number(fwCall.port) = "True"))
        => fwCall.res = "True"

\* C10: for proto = icmp the answer of is_traffic_allowed depends neither on
\* the port argument nor on the port field of any rule.
C10_IcmpIgnoresPort ==
    (fwCall.op = "is_traffic_allowed" /\ fwCall.proto = "icmp") =>
        /\ \A port \in PortInputs :
              is_traffic_allowed(fwRules, fwCall.src, fwCall.dest, port, "icmp")
                 = fwCall.res
        /\ \A v \in {PyString("all"), PyInt(80), PyInt(443)} :
              is_traffic_allowed(
                  [o \in FWObjects |->
                      [i \in 1..Len(fwRules[o]) |-> [fwRules[o][i] EXCEPT !.port = v]]],
                  fwCall.src, fwCall.dest, fwCall.port, "icmp") = fwCall.res

\* the four matches of _check_rules on one rule: "True" when the rule applies,
\* "False" when it does not, "Error" when a match raises
RuleApplies(rule, src, dest, port, proto, type) ==
    LET ms == {_does_src_match(src, rule, type), _does_dest_match(dest, rule, type),
               _does_port_match(PyStr(port), rule), _does_proto_match(proto, rule)}
    IN IF ms \subseteq {"True"} THEN "True"
       ELSE IF ms \subseteq {"True", "False"} THEN "False"
       ELSE "Error"

\* C11: when the rule list of an evaluated object holds a rule that applies
\* to the traffic, the object allows the traffic wherever the rule stands in
\* the list: an earlier rule that does not apply never hides a later one
\* that does.
C11_LaterRuleConsidered ==
    (/\ fwCall.op = "is_traffic_allowed"
     /\ fwCall.res \in {"True", "False"})
        => \A i \in 1..Len(EvalChain(fwCall.dest)) :
              LET o == EvalChain(fwCall.dest)[i]
                  ap(k) == RuleApplies(fwRules[o][k], fwCall.src, o, fwCall.port,
                                       fwCall.proto, EvalType(fwCall.dest))
              IN (/\ \A k \in 1..Len(fwRules[o]) : ap(k) # "Error"
                  /\ \E k \in 1..Len(fwRules[o]) : ap(k) = "True")
                    => _check_rules(fwRules, fwCall.src, o, fwCall.port,
                                    fwCall.proto, EvalType(fwCall.dest)) = "True"

(***************************************************************************)
(* Claims about the cyberwheel Network                                     *)
(***************************************************************************)

RECURSIVE Linked(_, _)
Linked(reached, k) ==
    IF k = 0 THEN reached
    ELSE Linked(reached \cup {m \in netNodes :
                                 \E n \in reached : <<n, m>> \in netEdges
                                                     \/ <<m, n>> \in netEdges},
                k - 1)

C1_LastStepBounded ==
    [][redTurn'.op = "act" =>
          \A h \in RedHosts :
             redHosts'[h].known =>
                /\ redHosts'[h].last_step <= Len(killchain) - 1
                /\ redHosts[h].known =>
                      redHosts'[h].last_step >= redHosts[h].last_step]_vars

\* C6: a turn executes the kill-chain phase killchain[min(next_step, len-1)]
\* only on a target that was ping-swept and port-scanned and is the current
\* host; otherwise it executes the first prerequisite that is missing, in
\* the order PingSweep, PortScan, LateralMovement.  On every host the first
\* phase comes after a PingSweep that covered it and a PortScan of it, and
\* the phases that succeed on it follow the kill chain, the last phase
\* repeating.
C6_KillChainOrder ==
    /\ (redTurn.op = "act" /\ redTurn.target # "None") =>
          /\ redTurn.action \in all_kcps \cup no_update
          /\ redTurn.action = "pingsweep" <=> ~redTurn.ping_sweeped
          /\ redTurn.action = "portscan" <=>
                (redTurn.ping_sweeped /\ ~redTurn.ports_scanned)
          /\ redTurn.action = "lateral-movement" <=>
                (redTurn.ping_sweeped /\ redTurn.ports_scanned
                 /\ ~redTurn.on_target)
          /\ redTurn.action \notin no_update =>
                /\ redTurn.ping_sweeped /\ redTurn.ports_scanned
                /\ redTurn.on_target
                /\ redTurn.action =
                      killchain[Min(redTurn.next_step, Len(killchain) - 1) + 1]
    /\ \A h \in RedHosts :
          LET log == redLog[h]
              phases == SelectSeq(log, LAMBDA e : e \notin {"pingsweep", "portscan"})
              first == CHOOSE i \in 1..Len(log) :
                          /\ log[i] \notin {"pingsweep", "portscan"}
                          /\ \A j \in 1..(i - 1) : log[j] \in {"pingsweep", "portscan"}
          IN /\ phases # << >> =>
                  /\ \E i \in 1..(first - 1) : log[i] = "pingsweep"
                  /\ \E i \in 1..(first - 1) : log[i] = "portscan"
             /\ LET done == SelectSeq(phases, LAMBDA e : e # "attempt")
                IN \A k \in 1..Len(done) :
                      done[k] = killchain[Min(k, Len(killchain))]

\* a host other than the entry host has gone through the whole kill chain
\* after a lateral movement to it
C6_Witness ==
    /\ redTurn.op = "act"
    /\ redTurn.action = "impact"
    /\ redTurn.success
    /\ \E h \in RedHosts :
          /\ h = redTurn.target
          /\ redLog[h] = <<"pingsweep", "portscan", "discovery",
                           "privilege-escalation", "impact">>
          /\ \E g \in RedHosts \ {h} : redHosts[g].last_step >= 0


\* C13: when the strategy returns no target, the attacker's turn completes
\* without raising: its result has attack_success false and the attacker's
\* knowledge and current host stay as they were.
C13_NoTargetNoRaise ==
    [][(redTurn'.op = "act" /\ redTurn'.target = "None") =>
          /\ ~redTurn'.raised
          /\ ~redTurn'.success
          /\ UNCHANGED <<redHosts, redSubnets, redCurrent, redUnimpacted,
                         redUnknowns>>]_vars

\* C14: while the attacker's current host is in quarantine, every
\* LateralMovement attempted from it fails and the current host stays the
\* same.
C14_IsolatedCannotMove ==
    [][(/\ redTurn'.op = "act"
        /\ redTurn'.action = "lateral-movement"
        /\ redCurrent \in redQuarantine)
          => /\ ~redTurn'.success
             /\ redCurrent' = redCurrent]_vars

C16_FailedTurnFrame ==
    [][redTurn'.op = "act" =>
          /\ ~redTurn'.success =>
                /\ redHosts' = redHosts
                /\ redCurrent' = redCurrent
          /\ (redTurn'.success /\ redTurn'.action \notin no_update) =>
                /\ redHosts'[redTurn'.target].last_step
                      = redHosts[redTurn'.target].last_step + 1
                /\ \A h \in RedHosts \ {redTurn'.target} :
                      redHosts'[h].last_step = redHosts[h].last_step
          /\ redTurn'.action \in no_update =>
                \A h \in RedHosts : redHosts'[h].last_step = redHosts[h].last_step]_vars

\* a phase failed on a host after an earlier phase had succeeded on it
C16_Witness ==
    /\ redTurn.op = "act"
    /\ redTurn.target \in RedHosts
    /\ redTurn.action = "impact"
    /\ ~redTurn.success
    /\ ~redTurn.raised
    /\ redHosts[redTurn.target].last_step = 1
    /\ ~redHosts[redTurn.target].impacted

(***************************************************************************)
(* Claims about DetectorHandler                                            *)
(***************************************************************************)

\* the alerts a detector class lets through, alert by alert
DetectorImage(class, alerts) ==
    UNION {SeqRange(detector_obs(class, <<x>>)) : x \in alerts}

\* the alerts that reach node n along some path from start
RECURSIVE Survivors(_, _, _, _)
Survivors(g, detectors, n, perfect_alerts) ==
    IF n = "start" THEN SeqRange(perfect_alerts)
    ELSE UNION {IF e[1] = "start" THEN SeqRange(perfect_alerts)
                ELSE DetectorImage(detectors[e[1]],
                                   Survivors(g, detectors, e[1], perfect_alerts)) :
                e \in {d \in EdgeSet(g) : d[2] = n}}

\* C12: on empty buffers obs returns in the end node's buffer every alert
\* that survives along some path from start to end, and the alerts returned
\* are the same for every order in which the adjacency list names the nodes
\* of the graph.
C12_TopologicalOrder ==
    (detCall.op = "obs" /\ detCall.fresh) =>
        /\ SeqRange(detCall.res)
              = Survivors(detDG, detInitInfo, "end", detCall.alerts)
        /\ \A c \in AdjacencyLists :
              EdgeSet(_from_config(c)) = EdgeSet(detDG) =>
                 SeqRange(obs(_from_config(c), detInitInfo, NoBuffers,
                              detCall.alerts)["end"]) = SeqRange(detCall.res)

\* C20 as stated: on the graph whose only edge goes from start to end, obs
\* on empty buffers returns the input alerts, as many as were given.
C20_PassThroughIdentity ==
    (/\ detCall.op = "obs"
     /\ detCall.fresh
     /\ EdgeSet(detDG) = {<<"start", "end">>})
        => /\ detCall.res = detCall.alerts
           /\ Len(detCall.res) = Len(detCall.alerts)

\* C20: on the graph whose only edge goes from start to end, obs on empty
\* buffers returns every input alert and nothing else, each alert once and
\* in the order of its first occurrence; it returns exactly the input when
\* no alert occurs twice in it.
C20_PassThroughDistinct ==
    (/\ detCall.op = "obs"
     /\ detCall.fresh
     /\ EdgeSet(detDG) = {<<"start", "end">>})
        => /\ SeqRange(detCall.res) = SeqRange(detCall.alerts)
           /\ Len(detCall.res) = Cardinality(SeqRange(detCall.alerts))
           /\ \A i, j \in 1..Len(detCall.res) :
                 i < j =>
                    \E k, l \in 1..Len(detCall.alerts) :
                       /\ k < l
                       /\ detCall.alerts[k] = detCall.res[i]
                       /\ detCall.alerts[l] = detCall.res[j]
           /\ Len(detCall.alerts) = Cardinality(SeqRange(detCall.alerts))
                 => detCall.res = detCall.alerts

\* two different alerts went through the graph start -> end
C20_Witness ==
    /\ detCall.op = "obs"
    /\ detCall.fresh
    /\ EdgeSet(detDG) = {<<"start", "end">>}
    /\ Len(detCall.alerts) = 2
    /\ detCall.alerts[1] # detCall.alerts[2]
    /\ detCall.res = detCall.alerts

\* the nodes of the graph whose buffer is filled by decoy detectors only
DecoyFed(g, detectors) ==
    {n \in DetNodes :
        /\ \E e \in EdgeSet(g) : e[2] = n
        /\ \A e \in EdgeSet(g) :
              e[2] = n => e[1] # "start" /\ detectors[e[1]] = "DecoyDetector"}

\* C21: every alert DecoyDetector.obs returns has one destination, a decoy
\* that is a destination of some input alert with the same source and
\* services; an input alert without a decoy destination produces no alert;
\* so a buffer of the graph that only decoy detectors fill never holds an
\* alert whose destinations include no decoy.
C21_DecoyOnly ==
    detCall.op = "obs" =>
        LET out == DecoyDetector_obs(detCall.alerts)
        IN /\ \A i \in 1..Len(out) :
                 /\ out[i].dst_hosts \cap DetDecoys # {}
                 /\ Cardinality(out[i].dst_hosts) = 1
                 /\ \E j \in 1..Len(detCall.alerts) :
                       /\ out[i].dst_hosts \subseteq detCall.alerts[j].dst_hosts
                       /\ out[i].src_host = detCall.alerts[j].src_host
                       /\ out[i].services = detCall.alerts[j].services
           /\ \A j \in 1..Len(detCall.alerts) :
                 detCall.alerts[j].dst_hosts \cap DetDecoys = {}
                    => DecoyDetector_obs(<< detCall.alerts[j] >>) = << >>
           /\ \A n \in DecoyFed(detDG, detInitInfo) :
                 \A a \in SeqRange(detOutput[n]) :
                    a.dst_hosts \cap DetDecoys # {}

\* a decoy detector before the end node was given an alert without a decoy
\* and an alert with two decoys, and returned an alert for each decoy
C21_Witness ==
    /\ detCall.op = "obs"
    /\ detCall.fresh
    /\ EdgeSet(detDG) = {<<"start", "a">>, <<"a", "end">>}
    /\ detInitInfo["a"] = "DecoyDetector"
    /\ \E i, j \in 1..Len(detCall.alerts) :
          /\ detCall.alerts[i].dst_hosts \cap DetDecoys = {}
          /\ Cardinality(detCall.alerts[j].dst_hosts \cap DetDecoys) = 2
    /\ Len(detCall.res) = 2

(***************************************************************************)
(* Claims about the environment's step and reset                           *)
(***************************************************************************)

\* C22: DetectorHandler.reset empties the buffer of every node, and between
\* two calls of step, and after reset, every buffer is empty; so the alerts
\* obs returns in a step are those it returns on empty buffers for the alert
\* of this step's attacker action, each of them an alert that survives from
\* this step's alert along a path of the graph, whatever the earlier steps
\* and episodes produced.
C22_NoStaleAlerts ==
    /\ \A n \in DetNodes : DetectorHandler_reset(envDetOutput)[n] = << >>
    /\ envPc = "idle" => envDetOutput = NoBuffers
    /\ (envPc = "idle" /\ envStep.op = "step") =>
          /\ envStep.alerts = obs(_from_config(envConfig), envDetectors,
                                  NoBuffers, envStep.alert)["end"]
          /\ SeqRange(envStep.alerts)
                \subseteq Survivors(_from_config(envConfig), envDetectors,
                                    "end", envStep.alert)

\* a step returned alerts of source h2 only, after a step of the same
\* episode that returned an alert of source h1
C22_Witness ==
    /\ envPc = "idle"
    /\ envStep.op = "step"
    /\ envCurrentStep >= 2
    /\ "h1" \in envEver
    /\ envStep.alerts # << >>
    /\ \A a \in SeqRange(envStep.alerts) : a.src_host = "h2"

\* C23: the observation vector has two entries per host.  After a step,
\* entry i is 1 exactly when an alert observed in this step has host i as
\* its source; entry n+i is 1 exactly when an alert observed in this or an
\* earlier step of the episode has; so entry i set implies entry n+i set.
\* Entry n+i never goes from 1 to 0 but by reset, and after reset all
\* entries are 0.
C23_ObservationVector ==
    /\ [](LET n == Len(EnvHosts)
          IN /\ Len(envObs) = 2 * n
             /\ \A i \in 0..(n - 1) :
                   /\ (envPc = "idle" /\ envStep.op = "step") =>
                         (envObs[i + 1] = 1 <=>
                            \E k \in 1..Len(envStep.alerts) :
                               envStep.alerts[k].src_host = EnvHosts[i + 1])
                   /\ envObs[n + i + 1] = 1 <=> EnvHosts[i + 1] \in envEver
                   /\ envObs[n + i + 1] \in {0, 1} /\ envObs[i + 1] \in {0, 1}
                   /\ envObs[i + 1] = 1 => envObs[n + i + 1] = 1
                   /\ envStep.op = "reset" => envObs[i + 1] = 0 /\ envObs[n + i + 1] = 0)
    /\ [][envStep'.op # "reset" =>
             \A i \in (Len(EnvHosts) + 1)..(2 * Len(EnvHosts)) :
                envObs[i] = 1 => envObs'[i] = 1]_vars

\* after a step without an alert for the first host, which was alerted
\* earlier in the episode, and with an alert for the second
C23_Witness ==
    /\ envPc = "idle"
    /\ envStep.op = "step"
    /\ envObs = <<0, 1, 1, 1>>
    /\ \A k \in 1..Len(envStep.alerts) : envStep.alerts[k].src_host = "h2"

\* the ids of the decoys that were deployed and are no longer in the network
RemovedDecoys == {EnvIds[i] : i \in 1..envNext} \ SeqRange(envDecoys)

C25_ResultIds ==
    envStep.blue.name \in BlueActionNames =>
        LET result == envStep.blue
        IN /\ result.recurring \in {-1, 0, 1}
           /\ result.id # "" =>
                 /\ result.name \in {"DeployDecoyHost", "RemoveDecoyHost"}
                 /\ result.success
           /\ result.name = "Nothing" => result.id = ""
           /\ ~result.success => result.id = ""
           /\ result.recurring # 0 => result.id # ""

(***************************************************************************)
(* Claims about the defender's actions on the network                      *)
(***************************************************************************)

\* the defender's action that has just run was given a target it rejects:
\* a host on the quarantine list, a host missing from it, an empty slot of
\* the isolate data or a decoy that is isolated, a host that is restored
Rejected ==
    \/ /\ netOp'.op = "QuarantineHost"
       /\ netOp'.arg \in SeqRange(netQuarantine)
    \/ /\ netOp'.op = "RemoveQuarantineHost"
       /\ netOp'.arg \notin SeqRange(netQuarantine)
    \/ /\ netOp'.op = "IsolateDecoy"
       /\ \/ netOp'.arg = "-"
          \/ netOp'.arg \in HostNames /\ netHost[netOp'.arg].isolated
    \/ /\ netOp'.op = "Restore"
       /\ netHost[netOp'.arg].restored

\* C26: QuarantineHost on a host of the quarantine list, RemoveQuarantineHost
\* on a host that is not on it, IsolateDecoy on an empty slot or on a decoy
\* that is isolated, and Restore on a host that is restored return success =
\* False and change neither the graph, nor a flag of a host, nor the
\* address pool, nor a shared list.
C26_RejectedFrame ==
    [][Rejected =>
          /\ netOp'.res = "False"
          /\ UNCHANGED <<netNodes, netData, netEdges, netDecoys,
                         netDisconnected, netHost, netPool, netConnected,
                         netDecoyList, netQuarantine, netIsolateData>>]_vars

\* QuarantineHost was refused for the host that is in quarantine
C26_Witness ==
    /\ netOp.op = "QuarantineHost"
    /\ netOp.res = "False"
    /\ netOp.arg \in SeqRange(netQuarantine)
    /\ netHost[netOp.arg].isolated

BlueEvents == <<"blue_agent.act", "handle_blue_action_output">>
RedEvents == <<"red_agent.act", "handle_red_action_output">>
ObserveEvents == <<"detector.obs", "create_obs_vector", "calculate_reward",
                   "detector.reset">>

UnimpactedKnownServers ==
    {h \in RedNames : /\ redHosts[h].known
                      /\ redHosts[h].type = "Server"
                      /\ ~redHosts[h].impacted}
UnknownKnownHosts ==
    {h \in RedNames : redHosts[h].known /\ redHosts[h].type = "Unknown"}

\* C30: ServerDowntime.select_target returns the current host exactly when
\* the known type of the current host is Unknown or it is a server that is
\* not impacted; otherwise it returns a known server that is not impacted
\* if there is one, otherwise a host of the unknowns if there is one,
\* otherwise none; the host it returns is never an impacted server.
C30_ServerDowntimeTarget ==
    [][(redTurn'.op = "act" /\ redStrategy = "ServerDowntime") =>
          LET target == redTurn'.target
              info == redHosts[redCurrent]
              stay == \/ info.type = "Unknown"
                      \/ info.type = "Server" /\ ~info.impacted
          IN /\ target = redCurrent <=> stay
             /\ redTurn'.on_target <=> stay
             /\ ~stay =>
                   IF UnimpactedKnownServers # {}
                   THEN target \in UnimpactedKnownServers
                   ELSE IF redUnknowns # {}
                   THEN target \in redUnknowns /\ target \in UnknownKnownHosts
                   ELSE target = "None"
             /\ redUnimpacted = UnimpactedKnownServers
             /\ target # "None" =>
                   ~(redHosts[target].type = "Server" /\ redHosts[target].impacted)]_vars

\* the attacker, on a server it has impacted, turned to a host of the
\* unknowns
C30_Witness ==
    /\ redStrategy = "ServerDowntime"
    /\ redTurn.op = "act"
    /\ ~redTurn.on_target
    /\ redTurn.target \in redUnknowns
    /\ redHosts[redCurrent].type = "Server"
    /\ redHosts[redCurrent].impacted

\* the known hosts whose last_step is below the terminal kill-chain step,
\* as select_target finds the history, after handle_network_change
BelowTerminal ==
    {h \in RedNames : /\ handle_network_change_hosts[h].known
                      /\ handle_network_change_hosts[h].last_step
                            < Len(killchain) - 1}

SweptSubnets ==
    {SubnetOfHost(h) : h \in {g \in RedHosts :
        \E i \in 1..Len(redLog[g]) : redLog[g][i] = "pingsweep"}}

\* C37: after a successful PingSweep of a subnet, the entry host's subnet
\* included, the attacker's KnownSubnetInfo of the subnet has scanned =
\* true; and a decoy the defender deploys into a subnet that has been swept
\* is, after the attacker's next turn, a known host and in the unknowns.
C37_SweptSubnetScanned ==
    [][redTurn'.op = "act" =>
          /\ (redTurn'.action = "pingsweep" /\ redTurn'.success)
                => redSubnets'[SubnetOfHost(redTurn'.target)] = "scanned"
          /\ \A d \in red_new_hosts :
                SubnetOfHost(d) \in SweptSubnets
                   => redHosts'[d].known /\ d \in redUnknowns']_vars

(***************************************************************************)
(* Claims about BlueInterface                                              *)
(***************************************************************************)

\* C32: perform_action maps every action number >= get_number_of_actions()
\* to do-nothing and every smaller number k to exactly one of: the
\* placement of a deceptive node on edge k (k below the number of deceptive
\* actions), a global action, or the standard action k' mod
\* number_of_actions on node k' div number_of_actions of the sorted current
\* nodes, where k' is k less the deceptive and the global actions; a
\* standard action on a node index that is not in the current graph is
\* do-nothing; no action number raises; and two numbers that run an action
\* run different ones.
C32_ActionMapping ==
    biCall.action >= 0 =>
       LET cfg == biConfig
           a == biCall.action
           nodes == biCall.nodes
           ran == biCall.ran
           n == Len(cfg.action_dict)
           g == Len(cfg.global_action_dict)
           d == cfg.deceptive_actions
           total == n * (Cardinality(nodes) + MaxDeceptive - biCall.deceptive)
                    + g + d
           k == a - d - g
           nothing == BlueCall("do_nothing", "do_nothing", "-")
       IN /\ ran.kind # "raise"
          /\ a >= total => ran = nothing
          /\ (a < total /\ a < d) =>
                ran = BlueCall("deceptive", "add_deceptive_node", a)
          /\ (a < total /\ a >= d /\ a < d + g) =>
                ran = BlueCall("global", cfg.global_action_dict[a - d + 1], "-")
          /\ (a < total /\ a >= d + g) =>
                IF k \div n < Cardinality(nodes)
                THEN ran = BlueCall("standard", cfg.action_dict[(k % n) + 1],
                                    sorted(nodes)[(k \div n) + 1])
                ELSE ran = nothing
          /\ \A b \in 0..MaxBlueAction :
                (b # a /\ ran # nothing)
                   => perform_action(cfg, nodes, biCall.deceptive, b) # ran

\* a standard action addressed to a deceptive node that is not placed yet,
\* in a game mode with deceptive and global actions, ran do-nothing
C32_Witness ==
    /\ biCall.action >= 0
    /\ biCall.action < get_number_of_actions(biConfig, biCall.nodes,
                                             biCall.deceptive)
    /\ biCall.ran.kind = "do_nothing"
    /\ biConfig.deceptive_actions > 0
    /\ Len(biConfig.global_action_dict) > 0
    /\ biCall.deceptive > 0

(***************************************************************************)
(* Claims about the decoy hosts of the cyberwheel Network                  *)
(***************************************************************************)

C34_CurrentIsOpenBase ==
    niCurEdges = {e \in niBaseEdges : \A x \in e : ~niIsolated[x]}

\* add_deceptive_node has just relocated a deceptive node that was isolated,
\* to an edge with an isolated end
C34_Witness ==
    /\ niOp.op = "add_deceptive_node"
    /\ niOp.ok
    /\ niOp.wasIso
    /\ \E m \in Neighbors(niBaseNodes, niBaseEdges, niOp.node) : niIsolated[m]

(***************************************************************************)
(* Claims about the creation of hosts in the cyberwheel Network            *)
(***************************************************************************)

DeceptiveIn(nodes) == nodes \ NINodes

\* C38: the number of deceptive nodes in the graph never exceeds the
\* configured maximum and always equals current_deceptive_nodes; the
\* pointer stays within [0, maximum); once the maximum has been placed, a
\* successful add_deceptive_node relocates the least recently placed
\* deceptive node and adds no node; an add_deceptive_node between nodes that
\* share no base-graph edge returns false and changes nothing.
C38_DeceptiveNodeCount ==
    /\ [](/\ Cardinality(DeceptiveIn(niCurNodes)) <= MaxDeceptive
          /\ Cardinality(DeceptiveIn(niCurNodes)) = niCount
          /\ DeceptiveIn(niBaseNodes) = DeceptiveIn(niCurNodes)
          /\ niPointer \in 0..(MaxDeceptive - 1)
          /\ niReachedMax <=> niCount = MaxDeceptive)
    /\ [][niOp'.op = "add_deceptive_node" =>
             IF niOp'.ok
             THEN IF niReachedMax
                  THEN /\ niOp'.node = Head(niOrder)
                       /\ niCurNodes' = niCurNodes
                       /\ niBaseNodes' = niBaseNodes
                       /\ niCount' = niCount
                  ELSE /\ niOp'.node \notin niCurNodes
                       /\ niCurNodes' = niCurNodes \cup {niOp'.node}
                       /\ niCount' = niCount + 1
             ELSE UNCHANGED <<niBaseNodes, niBaseEdges, niCurNodes, niCurEdges,
                              niIsolated, niPointer, niCount, niReachedMax>>]_vars

\* with the maximum placed, add_deceptive_node has just relocated a
\* deceptive node, after an add_deceptive_node that failed
C38_Witness ==
    /\ niOp.op = "add_deceptive_node"
    /\ niOp.ok
    /\ niReachedMax
    /\ niOrder[Len(niOrder)] = niOp.node
    /\ Len(niOrder) = MaxDeceptive
    /\ niOp.node = available_deceptive_nodes[1]
    /\ niPointer = 1

(***************************************************************************)
(* Claims about the attacker's zero days                                   *)
(***************************************************************************)

\* C39: zero_day_amount is never negative; zero_day_attack takes exactly
\* one zero day when at least one is held and a target was attacked, and
\* none otherwise; increment_day grants exactly one zero day when the day
\* counter has reached days_required and restarts the counter at 0, so that
\* a grant closes exactly days_required + 1 turns since the grant before it.
C39_ZeroDayCounter ==
    /\ [](/\ riAmount >= 0
          /\ riDay \in 0..MaxDaysRequired
          /\ riConfig.use => riSince <= riConfig.days_required)
    /\ [][riCall'.op = "perform_action" =>
             /\ riCall'.attacked => riCall'.before >= 1
             /\ riCall'.after = IF riCall'.attacked THEN riCall'.before - 1
                                ELSE riCall'.before
             /\ riCall'.attacked => riCompromised' # riCompromised
             /\ riCall'.granted <=> (riConfig.use /\ riDay = riConfig.days_required)
             /\ IF riCall'.granted
                THEN /\ riAmount' = riCall'.after + 1
                     /\ riDay' = 0
                     /\ riSince + 1 = riConfig.days_required + 1
                ELSE /\ riAmount' = riCall'.after
                     /\ riConfig.use => riDay' = riDay + 1]_vars

\* a turn has just granted a zero day, days_required + 1 turns after the
\* grant before it, with days_required at least 1 and the zero day the
\* attacker held spent on a target in the same turn
C39_Witness ==
    /\ riCall.op = "perform_action"
    /\ riCall.granted
    /\ riCall.attacked
    /\ riConfig.days_required >= 1
    /\ riCall.before = 1
    /\ riCall.after = 0
    /\ riAmount = 1

(***************************************************************************)
(* Claims about the end of an episode of DynamicCyberwheel                 *)
(***************************************************************************)

\* C40: every call to step that returns increases current_step by exactly
\* 1; counting the calls that return after a reset, the done flag is false
\* on the first max_steps of them and true on call max_steps + 1 and on
\* every later one; the truncated flag is false on every call.
C40_EpisodeEnds ==
    /\ [](envCurrentStep = envReturned)
    /\ [][(envPc = "red" /\ envPc' = "idle") =>
             /\ envCurrentStep' = envCurrentStep + 1
             /\ envStep'.done <=> (envReturned' >= envMaxSteps + 1)
             /\ ~envStep'.truncated]_vars
    /\ [][envStep'.op = "reset" => envCurrentStep' = 0]_vars

\* call max_steps + 1 after a reset has just returned with done set, after
\* max_steps calls that returned without it
C40_Witness ==
    /\ envPc = "idle"
    /\ envStep.op = "step"
    /\ envStep.done
    /\ ~envStep.truncated
    /\ envMaxSteps >= 1
    /\ envReturned = envMaxSteps + 1
    /\ envCurrentStep = envMaxSteps + 1

====
